---- MODULE Spec2Model ----
(***************************************************************************)
(* A model of the retrieval and context-fusion core of the knowledge-base  *)
(* assistant: the conversation memory store (memory_manager.py), the       *)
(* hybrid retriever (qdrant_helper.py) and the conversation-aware answer   *)
(* pipeline (conversation_aware_rag.py).                                   *)
(*                                                                         *)
(* The vector store and the embedding model are external services.  The    *)
(* store is modelled by its wire contract: a collection is a sequence of   *)
(* payloads (a point is identified by its position, ids are fresh uuid4    *)
(* values), scroll returns at most a page of the matching points in an     *)
(* order the store chooses, search returns the best-scoring matching       *)
(* points that reach the score threshold.  The embedding model is          *)
(* modelled by a fixed table of similarities between the texts of the      *)
(* model, in percent.                                                      *)
(***************************************************************************)
EXTENDS Integers, Sequences, FiniteSets, TLC

(***************************************************************************)
(* Bounds of the model.                                                    *)
(***************************************************************************)
\* the largest number of points the chat_memory collection holds
MaxMsgs == 4
\* the page size of scroll: limit=1000 in the source, scaled down so that a
\* session can outgrow one page within MaxMsgs
ScrollLimit == 2
\* the page size of the scroll of retrieve_messages_by_sequence: limit=1000
\* in the source, scaled down less, so that one page can hold two messages
\* of one content next to a third message
SequenceScrollLimit == 3
\* the context_window and top_k values retrieve_context_relevant_messages is
\* called with: the hits alone or the callers' window of 2; one hit or the
\* answer pipeline's three
ContextWindows == {0, 2}
TopKs == {1, 3}

\* the range merge alone: the largest matched sequence number, the longest
\* list of matched sequence numbers and the largest context window
MaxSeqNum == 10
MaxMatched == 3
MaxMergeWindow == 2

\* the largest number of points the document_chunks collection holds
MaxChunks == 3

Sessions == {"A", "B"}
\* the texts users type
Texts == {"x", "y"}
\* the (role, content) pairs store_message is called with directly
Utterances ==
    {[role |-> "user", content |-> "x"],
     [role |-> "assistant", content |-> "x"],
     [role |-> "system", content |-> "y"]}

Min(a, b) == IF a <= b THEN a ELSE b
Max(a, b) == IF a >= b THEN a ELSE b

\* an absent optional argument (Python's None) is <<>>, a present one <<v>>
None == <<>>
Some(v) == <<v>>

\* two callers of store_message that may run at the same time
Writers == {"w1", "w2"}

VARIABLES
    chat_memory,    \* the "chat_memory" collection: a sequence of payloads
    mm_call,        \* the memory-store call that ran last, with its arguments
    mm_result,      \* what that call returned
    writers,        \* each concurrent store_message call: its position and locals
    mg,             \* the range merge of retrieve_context_relevant_messages alone
    document_chunks,\* the "document_chunks" collection: a sequence of payloads
    hs,             \* the hybrid_search call: its arguments and locals
    aq,             \* the answer_query_with_conversation_context call
    fn,             \* a function of its arguments alone: the call and its result
    ix,             \* the index_document_with_strategies call
    au,             \* authentication: the sessions table, the clock, the last call
    qc,             \* the store's collections and the callers that ensure one exists
    ui              \* a browser session of the user interface

vars == <<chat_memory, mm_call, mm_result, writers, mg, document_chunks, hs, aq,
          fn, ix, au, qc, ui>>

(***************************************************************************)
(* The embedding model and the store's similarity search.                  *)
(***************************************************************************)
\* cosine similarity of the embeddings of two texts, in percent
Similarity(q, t) ==
    IF q = t THEN 100
    ELSE IF {q, t} = {"x", "y"} THEN 70
    ELSE IF {q, t} = {"x", "z"} THEN 40
    ELSE 10

\* fuzz.token_set_ratio of the lower-cased query and text, 0..100
TokenSetRatio(q, t) ==
    IF q = t THEN 100
    ELSE IF {q, t} = {"x", "z"} THEN 80
    ELSE IF {q, t} = {"y", "z"} THEN 75
    ELSE IF {q, t} = {"x", "y"} THEN 50
    ELSE 0

\* the injective sequences of length n over the set S
Arrangements(S, n) ==
    {q \in [1..n -> S] : \A i, j \in 1..n : i # j => q[i] # q[j]}

\* scroll(limit=1000): one page, at most ScrollLimit of the matching points,
\* in the order the store returns them; M is the set of matching points
ScrollLen(M) == Min(Cardinality(M), ScrollLimit)
Scroll(M) == Arrangements(M, ScrollLen(M))

\* the scroll of retrieve_messages_by_sequence: one page, at most
\* SequenceScrollLimit of the matching points, in the order the store
\* returns them
SequenceScroll(M) == Arrangements(M, Min(Cardinality(M), SequenceScrollLimit))

\* search(query_vector, filter, limit, score_threshold): the matching points
\* M whose score sc[i] reaches the threshold, best first, cut to limit
SearchHits(M, sc, limit, threshold) ==
    LET ok == {i \in M : sc[i] >= threshold}
        n  == Min(Cardinality(ok), limit)
    IN  {h \in Arrangements(ok, n) :
            /\ \A k \in 1..(n - 1) : sc[h[k]] >= sc[h[k + 1]]
            /\ \A i \in ok : (\A k \in 1..n : h[k] # i) =>
                                 \A k \in 1..n : sc[h[k]] >= sc[i]}

(***************************************************************************)
(* memory_manager.py                                                       *)
(***************************************************************************)
\* a scroll without a filter: the points of every session
SessionPointsAll(coll, s) == DOMAIN coll

\* Filter(must=[session_id == s]): the points of session s
SessionPoints(coll, s) == {i \in DOMAIN coll : coll[i].session_id = s}

\* a variant that counts the messages of every session
NextSequenceNumAnySession(coll, s) == ScrollLen(SessionPointsAll(coll, s)) + 1

\* store_message: sequence_num = len(existing_messages) + 1
NextSequenceNum(coll, s) == ScrollLen(SessionPoints(coll, s)) + 1

\* a variant of the upsert that reuses the id of the last point
UpsertSameId(coll, payload) ==
    IF coll = <<>> THEN <<payload>> ELSE [coll EXCEPT ![Len(coll)] = payload]

\* qdrant_client.upsert of one point under a fresh uuid: a new point
Upsert(coll, payload) == Append(coll, payload)

\* store_message: the payload of the new point
NewPoint(s, content, role, seq) ==
    [session_id |-> s, content |-> content, role |-> role, sequence_num |-> seq]

\* "sequence_num" in payload
HasSequenceNum(payload) == "sequence_num" \in DOMAIN payload

\* Range(gte=start_seq, lte=end_seq) on sequence_num; a payload without the
\* key matches no range
InRange(payload, start_seq, end_seq) ==
    (start_seq # None \/ end_seq # None) =>
        /\ HasSequenceNum(payload)
        /\ start_seq # None => payload.sequence_num >= start_seq[1]
        /\ end_seq # None => payload.sequence_num <= end_seq[1]

\* a variant of the filter without the session condition
SeqFilterNoSession(coll, s, start_seq, end_seq) ==
    {i \in DOMAIN coll : InRange(coll[i], start_seq, end_seq)}

\* retrieve_messages_by_sequence: the filter, session and optional range
SeqFilter(coll, s, start_seq, end_seq) ==
    {i \in SessionPoints(coll, s) : InRange(coll[i], start_seq, end_seq)}

\* content_to_seq: the sequence number of the last hit with each content,
\* over the hits that have one
RECURSIVE ContentToSeq(_)
ContentToSeq(hits) ==
    IF hits = <<>> THEN <<>>
    ELSE LET n    == Len(hits)
             rest == ContentToSeq(SubSeq(hits, 1, n - 1))
             c    == hits[n].content
         IN  IF HasSequenceNum(hits[n])
             THEN [k \in (DOMAIN rest) \cup {c} |->
                      IF k = c THEN hits[n].sequence_num ELSE rest[k]]
             ELSE rest

\* the message object built for a hit, by its role
MessageOf(p) ==
    IF p.role = "user" THEN [type |-> "human", content |-> p.content]
    ELSE IF p.role = "assistant" THEN [type |-> "ai", content |-> p.content]
    ELSE [type |-> "system", content |-> p.content]

\* a variant that puts each message in front of the earlier ones
RECURSIVE ToMessagesReversed(_)
ToMessagesReversed(hits) ==
    IF hits = <<>> THEN <<>>
    ELSE LET tl == ToMessagesReversed(Tail(hits))
         IN  IF Head(hits).role \in {"user", "assistant", "system"}
             THEN tl \o <<MessageOf(Head(hits))>>
             ELSE tl

\* the messages of the hits; a hit of any other role is skipped
RECURSIVE ToMessages(_)
ToMessages(hits) ==
    IF hits = <<>> THEN <<>>
    ELSE LET tl == ToMessages(Tail(hits))
         IN  IF Head(hits).role \in {"user", "assistant", "system"}
             THEN <<MessageOf(Head(hits))>> \o tl
             ELSE tl

\* content_to_seq.get(x.content, 0)
SortKey(cts, m) == IF m.content \in DOMAIN cts THEN cts[m.content] ELSE 0

\* list.sort(key=...): stable, ascending
RECURSIVE InsertSorted(_, _, _)
InsertSorted(sorted, m, cts) ==
    IF sorted = <<>> THEN <<m>>
    ELSE LET n == Len(sorted)
         IN  IF SortKey(cts, sorted[n]) <= SortKey(cts, m)
             THEN Append(sorted, m)
             ELSE Append(InsertSorted(SubSeq(sorted, 1, n - 1), m, cts), sorted[n])

RECURSIVE SortMessages(_, _)
SortMessages(msgs, cts) ==
    IF msgs = <<>> THEN <<>>
    ELSE LET n == Len(msgs)
         IN  InsertSorted(SortMessages(SubSeq(msgs, 1, n - 1), cts), msgs[n], cts)

\* retrieve_messages_by_sequence, given the page the store returned
MessagesOfPage(coll, page) ==
    LET hits == [k \in 1..Len(page) |-> coll[page[k]]]
        cts  == ContentToSeq(hits)
        msgs == ToMessages(hits)
    IN  IF DOMAIN cts # {} THEN SortMessages(msgs, cts) ELSE msgs

\* retrieve_messages_by_sequence: every result the call can return
RetrieveMessagesBySequence(coll, s, start_seq, end_seq) ==
    {MessagesOfPage(coll, page) : page \in SequenceScroll(SeqFilter(coll, s, start_seq, end_seq))}

\* score_threshold=0.6 of the conversation search, in percent
ConversationScoreThreshold == 60

\* matched_sequences: the sequence numbers of the search hits that have one,
\* in hit order
MatchedSequences(coll, hits) ==
    LET with_seq == SelectSeq(hits, LAMBDA i : HasSequenceNum(coll[i]))
    IN  [k \in 1..Len(with_seq) |-> coll[with_seq[k]].sequence_num]

\* sequence_ranges: (max(1, seq - context_window), seq + context_window)
WindowOf(seq, context_window) == <<Max(1, seq - context_window), seq + context_window>>
SequenceRanges(matched, context_window) ==
    [k \in 1..Len(matched) |-> WindowOf(matched[k], context_window)]

\* tuple comparison of list.sort() on (start, end) pairs
RangeLeq(a, b) == a[1] < b[1] \/ (a[1] = b[1] /\ a[2] <= b[2])

RECURSIVE InsertRange(_, _)
InsertRange(sorted, r) ==
    IF sorted = <<>> THEN <<r>>
    ELSE LET n == Len(sorted)
         IN  IF RangeLeq(sorted[n], r)
             THEN Append(sorted, r)
             ELSE Append(InsertRange(SubSeq(sorted, 1, n - 1), r), sorted[n])

RECURSIVE SortRanges(_)
SortRanges(ranges) ==
    IF ranges = <<>> THEN <<>>
    ELSE LET n == Len(ranges)
         IN  InsertRange(SortRanges(SubSeq(ranges, 1, n - 1)), ranges[n])

\* a variant of the merge test that merges overlapping ranges only
TouchesNoAdjacent(start, current_end) == start <= current_end

\* the merge test of the loop: start <= current_end + 1
Touches(start, current_end) == start <= current_end + 1

\* the merge loop over the sorted ranges from position k on, with the ranges
\* merged so far and the current range
RECURSIVE MergeLoop(_, _, _, _)
MergeLoop(sorted, k, merged, current) ==
    IF k > Len(sorted) THEN Append(merged, current)
    ELSE IF Touches(sorted[k][1], current[2])
         THEN MergeLoop(sorted, k + 1, merged,
                        <<current[1], Max(current[2], sorted[k][2])>>)
         ELSE MergeLoop(sorted, k + 1, Append(merged, current), sorted[k])

\* merged_ranges of a non-empty list of matched sequence numbers
MergedRanges(matched, context_window) ==
    LET sorted == SortRanges(SequenceRanges(matched, context_window))
    IN  MergeLoop(sorted, 2, <<>>, sorted[1])

\* all_messages: the messages of every merged range, range after range; each
\* range is one call of retrieve_messages_by_sequence
RECURSIVE AllMessages(_, _, _)
AllMessages(coll, s, ranges) ==
    IF ranges = <<>> THEN {<<>>}
    ELSE {first \o rest :
            first \in RetrieveMessagesBySequence(coll, s, Some(Head(ranges)[1]),
                                                 Some(Head(ranges)[2])),
            rest \in AllMessages(coll, s, Tail(ranges))}

\* unique_messages: the first message of each content, in order
RECURSIVE UniqueMessages(_)
UniqueMessages(msgs) ==
    IF msgs = <<>> THEN <<>>
    ELSE LET n    == Len(msgs)
             init == UniqueMessages(SubSeq(msgs, 1, n - 1))
         IN  IF \E k \in 1..(n - 1) : msgs[k].content = msgs[n].content
             THEN init
             ELSE Append(init, msgs[n])

\* the search of retrieve_context_relevant_messages: every hit list the store
\* can return
ConversationSearch(coll, s, query, top_k) ==
    SearchHits(SessionPoints(coll, s), [i \in DOMAIN coll |-> Similarity(query, coll[i].content)],
               top_k, ConversationScoreThreshold)

\* retrieve_context_relevant_messages after the search returned hits: every
\* result the call can return
ContextMessages(coll, s, hits, context_window) ==
    IF hits = <<>> \/ MatchedSequences(coll, hits) = <<>> THEN {<<>>}
    ELSE {UniqueMessages(all) :
            all \in AllMessages(coll, s,
                                MergedRanges(MatchedSequences(coll, hits), context_window))}

(***************************************************************************)
(* The memory store, one caller at a time.                                 *)
(***************************************************************************)
NoCall == [op |-> "none"]
IdleWriters == [w \in Writers |-> [pc |-> "idle"]]

InitMemory ==
    /\ chat_memory = <<>>
    /\ mm_call = NoCall
    /\ mm_result = <<>>

\* the parts of the state a specification does not use
InitWritersIdle == writers = IdleWriters
InitMergeIdle == mg = NoCall
InitHybridIdle == document_chunks = <<>> /\ hs = NoCall
InitAnswerIdle == aq = [pc |-> "idle"]
InitFunctionIdle == fn = NoCall
InitIndexIdle == ix = [pc |-> "idle"]
InitAuthIdle == au = NoCall
InitCollectionsIdle == qc = NoCall
InitInterfaceIdle == ui = NoCall
InitServicesIdle == InitCollectionsIdle /\ InitInterfaceIdle
InitOthersIdle == InitFunctionIdle /\ InitIndexIdle /\ InitAuthIdle /\ InitServicesIdle

\* store_message(session_id, message_content, role)
StoreMessage ==
    \E s \in Sessions, u \in Utterances :
        /\ Len(chat_memory) < MaxMsgs
        /\ chat_memory' = Upsert(chat_memory,
                                 NewPoint(s, u.content, u.role,
                                          NextSequenceNum(chat_memory, s)))
        /\ mm_call' = NoCall
        /\ mm_result' = <<>>
        /\ UNCHANGED <<writers, mg, document_chunks, hs, aq, fn, ix, au, qc, ui>>

\* retrieve_messages_by_sequence(session_id, start_seq, end_seq)
RetrieveBySequence ==
    /\ mm_call = NoCall
    /\ \E s \in Sessions,
       start_seq \in {None} \cup {Some(n) : n \in 1..(ScrollLimit + 1)},
       end_seq \in {None} \cup {Some(n) : n \in 1..(ScrollLimit + 1)} :
        /\ \E page \in SequenceScroll(SeqFilter(chat_memory, s, start_seq, end_seq)) :
               /\ mm_call' = [op |-> "retrieve_messages_by_sequence",
                              session_id |-> s,
                              start_seq |-> start_seq, end_seq |-> end_seq,
                              page |-> page]
               /\ mm_result' = MessagesOfPage(chat_memory, page)
               /\ UNCHANGED <<chat_memory, writers, mg, document_chunks, hs, aq, fn, ix, au, qc, ui>>

\* retrieve_context_relevant_messages(session_id, query, context_window, top_k)
RetrieveContextRelevant ==
    /\ mm_call = NoCall
    /\ \E s \in Sessions, query \in Texts,
       context_window \in ContextWindows, top_k \in TopKs :
        /\ \E hits \in ConversationSearch(chat_memory, s, query, top_k) :
            \E res \in ContextMessages(chat_memory, s, hits, context_window) :
               /\ mm_call' = [op |-> "retrieve_context_relevant_messages",
                              session_id |-> s, query |-> query,
                              context_window |-> context_window, top_k |-> top_k,
                              hits |-> hits]
               /\ mm_result' = res
               /\ UNCHANGED <<chat_memory, writers, mg, document_chunks, hs, aq, fn, ix, au, qc, ui>>

\* get_all_session_messages(session_id): retrieve_messages_by_sequence without
\* a range; an exception of the store is caught and gives the empty list
GetAllSessionMessages ==
    /\ mm_call = NoCall
    /\ \E s \in Sessions, store_ok \in BOOLEAN :
        \E res \in IF store_ok
                   THEN RetrieveMessagesBySequence(chat_memory, s, None, None)
                   ELSE {<<>>} :
            /\ mm_call' = [op |-> "get_all_session_messages", session_id |-> s,
                           store_ok |-> store_ok, raised |-> FALSE]
            /\ mm_result' = res
            /\ UNCHANGED <<chat_memory, writers, mg, document_chunks, hs, aq, fn, ix, au, qc, ui>>

Next ==
    \/ StoreMessage
    \/ RetrieveBySequence
    \/ RetrieveContextRelevant
    \/ GetAllSessionMessages

Init ==
    /\ InitMemory
    /\ InitWritersIdle /\ InitMergeIdle /\ InitHybridIdle /\ InitAnswerIdle /\ InitOthersIdle

Spec == Init /\ [][Next]_vars

(***************************************************************************)
(* retrieve_messages_by_sequence over a collection that holds points       *)
(* written without a sequence number, which the code provides for          *)
(* ("sequence_num" in result.payload).                                     *)
(***************************************************************************)
MaxStored == 3

\* the points of such a collection: with and without sequence_num
StoredPoints ==
    {[session_id |-> "A", content |-> "x", role |-> "user", sequence_num |-> 1],
     [session_id |-> "A", content |-> "y", role |-> "assistant", sequence_num |-> 2],
     [session_id |-> "A", content |-> "z", role |-> "user"],
     [session_id |-> "A", content |-> "y", role |-> "system"]}

InitStored ==
    /\ chat_memory \in {<<>>} \cup UNION {[1..n -> StoredPoints] : n \in 1..MaxStored}
    /\ mm_call = NoCall
    /\ mm_result = <<>>
    /\ InitWritersIdle /\ InitMergeIdle /\ InitHybridIdle /\ InitAnswerIdle
    /\ InitOthersIdle

SpecStored == InitStored /\ [][RetrieveBySequence]_vars

(***************************************************************************)
(* store_message called by two writers at once: the scroll that counts the *)
(* session's messages and the upsert are two requests to the store.        *)
(***************************************************************************)
\* the (role, content) the concurrent writers store
RaceUtterances == {[role |-> "user", content |-> "x"]}

\* the calls that have read the count and not yet written
InFlight == {w \in Writers : writers[w].pc = "upsert"}

\* store_message up to the scroll: sequence_num is computed from the page
StoreRead(w) ==
    \E s \in Sessions, u \in RaceUtterances :
        /\ writers[w].pc = "idle"
        /\ Len(chat_memory) + Cardinality(InFlight) < MaxMsgs
        /\ writers' = [writers EXCEPT ![w] =
                          [pc |-> "upsert", session_id |-> s, content |-> u.content,
                           role |-> u.role,
                           sequence_num |-> NextSequenceNum(chat_memory, s),
                           raced |-> FALSE]]
        /\ UNCHANGED <<chat_memory, mm_call, mm_result, mg, document_chunks, hs, aq, fn, ix, au, qc, ui>>

\* store_message from the upsert on; raced records, for the calls still in
\* flight on the same session, that a message was stored since their scroll
StoreUpsert(w) ==
    /\ writers[w].pc = "upsert"
    /\ chat_memory' = Upsert(chat_memory,
                             NewPoint(writers[w].session_id, writers[w].content,
                                      writers[w].role, writers[w].sequence_num))
    /\ writers' = [v \in Writers |->
                      IF v = w THEN [pc |-> "idle"]
                      ELSE IF /\ writers[v].pc = "upsert"
                              /\ writers[v].session_id = writers[w].session_id
                           THEN [writers[v] EXCEPT !.raced = TRUE]
                           ELSE writers[v]]
    /\ UNCHANGED <<mm_call, mm_result, mg, document_chunks, hs, aq, fn, ix, au, qc, ui>>

NextRace == \E w \in Writers : StoreRead(w) \/ StoreUpsert(w)

SpecRace == Init /\ [][NextRace]_vars

(***************************************************************************)
(* The range merge of retrieve_context_relevant_messages as a function of  *)
(* the matched sequence numbers and the context window.                    *)
(***************************************************************************)
\* the sequences over S of length 1..n
SeqsUpTo(S, n) == UNION {[1..k -> S] : k \in 1..n}

InitMerge ==
    /\ mg \in {[op |-> "matched", matched |-> m, context_window |-> w] :
                  m \in SeqsUpTo(1..MaxSeqNum, MaxMatched), w \in 0..MaxMergeWindow}
    /\ InitMemory /\ InitWritersIdle /\ InitHybridIdle /\ InitAnswerIdle /\ InitOthersIdle

\* lines 164-179 of retrieve_context_relevant_messages
MergeMatched ==
    /\ mg.op = "matched"
    /\ mg' = [op |-> "merged", matched |-> mg.matched,
              context_window |-> mg.context_window,
              merged_ranges |-> MergedRanges(mg.matched, mg.context_window)]
    /\ UNCHANGED <<chat_memory, mm_call, mm_result, writers, document_chunks, hs, aq, fn, ix, au, qc, ui>>

SpecMerge == InitMerge /\ [][MergeMatched]_vars

(***************************************************************************)
(* qdrant_helper.py: vector search, fuzzy search and their fusion.         *)
(* Scores are in percent and weights in tenths; a combined score is kept   *)
(* as the numerator vector_score * v + fuzzy_score * f over the weights'   *)
(* common denominator.                                                     *)
(***************************************************************************)
\* score_threshold=0.3 of the document search, in percent
DocumentScoreThreshold == 30
\* min_score=70 of fuzzy_search
FuzzyMinScore == 70

\* the first n elements of a list: list[:n]
Take(list, n) == SubSeq(list, 1, Min(Len(list), n))

\* a variant of the sort that puts a later entry before its equals
RECURSIVE InsertByScoreUnstable(_, _)
InsertByScoreUnstable(sorted, r) ==
    IF sorted = <<>> THEN <<r>>
    ELSE LET n == Len(sorted)
         IN  IF sorted[n].score > r.score
             THEN Append(sorted, r)
             ELSE Append(InsertByScoreUnstable(SubSeq(sorted, 1, n - 1), r), sorted[n])

\* list.sort(key=lambda x: x["score"], reverse=True): stable, descending
RECURSIVE InsertByScore(_, _)
InsertByScore(sorted, r) ==
    IF sorted = <<>> THEN <<r>>
    ELSE LET n == Len(sorted)
         IN  IF sorted[n].score >= r.score
             THEN Append(sorted, r)
             ELSE Append(InsertByScore(SubSeq(sorted, 1, n - 1), r), sorted[n])

RECURSIVE SortByScore(_)
SortByScore(list) ==
    IF list = <<>> THEN <<>>
    ELSE LET n == Len(list)
         IN  InsertByScore(SortByScore(SubSeq(list, 1, n - 1)), list[n])

\* the result dictionary built for a vector hit; point is the stored point the
\* hit is, which the dictionary itself does not carry (it has no "id" key)
VectorResult(coll, i, query) ==
    [point |-> i, score |-> Similarity(query, coll[i].text), text |-> coll[i].text,
     metadata |-> coll[i].metadata, strategy |-> coll[i].strategy]

\* one search of query_qdrant_multi_strategy over the points M: every list of
\* result dictionaries it can append
SearchResults(coll, M, query, limit) ==
    {[k \in 1..Len(h) |-> VectorResult(coll, h[k], query)] :
        h \in SearchHits(M, [i \in DOMAIN coll |-> Similarity(query, coll[i].text)],
                         limit, DocumentScoreThreshold)}

\* the searches per named strategy, appended strategy after strategy
RECURSIVE PerStrategyResults(_, _, _, _)
PerStrategyResults(coll, query, strategies, top_k) ==
    IF strategies = <<>> THEN {<<>>}
    ELSE {first \o rest :
            first \in SearchResults(coll,
                                    {i \in DOMAIN coll : coll[i].strategy = Head(strategies)},
                                    query, top_k),
            rest \in PerStrategyResults(coll, query, Tail(strategies), top_k)}

\* query_qdrant_multi_strategy: every list it can return; any exception
\* (store_ok false) is caught and gives the empty list
QueryQdrantMultiStrategy(coll, query, strategies, top_k, store_ok) ==
    IF ~store_ok THEN {<<>>}
    ELSE LET all_results == IF strategies = <<>>
                            THEN SearchResults(coll, DOMAIN coll, query, top_k * 3)
                            ELSE PerStrategyResults(coll, query, strategies, top_k)
         IN  {Take(SortByScore(r), top_k) : r \in all_results}

\* a variant that cuts the matches to top_k before sorting them
FuzzyResultsOfPageCutFirst(coll, page, query, min_score, top_k) ==
    LET kept == SelectSeq(page, LAMBDA i : TokenSetRatio(query, coll[i].text) >= min_score)
        results == [k \in 1..Len(kept) |->
                       [point |-> kept[k], score |-> TokenSetRatio(query, coll[kept[k]].text),
                        text |-> coll[kept[k]].text, metadata |-> coll[kept[k]].metadata,
                        strategy |-> coll[kept[k]].strategy]]
    IN  SortByScore(Take(results, top_k))

\* fuzzy_search over the page the scroll returned
FuzzyResultsOfPage(coll, page, query, min_score, top_k) ==
    LET kept == SelectSeq(page, LAMBDA i : TokenSetRatio(query, coll[i].text) >= min_score)
        results == [k \in 1..Len(kept) |->
                       [point |-> kept[k], score |-> TokenSetRatio(query, coll[kept[k]].text),
                        text |-> coll[kept[k]].text, metadata |-> coll[kept[k]].metadata,
                        strategy |-> coll[kept[k]].strategy]]
    IN  Take(SortByScore(results), top_k)

\* fuzzy_search: every list it can return; any exception gives the empty list
FuzzySearch(coll, query, min_score, top_k, store_ok) ==
    IF ~store_ok THEN {<<>>}
    ELSE {FuzzyResultsOfPage(coll, page, query, min_score, top_k) :
            page \in Scroll(DOMAIN coll)}

\* hybrid_search, lines 319-324: the weights it scores with, over their common
\* denominator den; the caller's weights are tenths
NormalizedWeights(vector_weight, fuzzy_weight) ==
    IF vector_weight + fuzzy_weight # 10
    THEN [v |-> vector_weight, f |-> fuzzy_weight, den |-> vector_weight + fuzzy_weight]
    ELSE [v |-> vector_weight, f |-> fuzzy_weight, den |-> 10]

\* combined_results after the vector loop: one entry per vector result, each
\* under a fresh uuid (the k-th generated in the call)
VectorEntries(vector_results) ==
    [k \in 1..Len(vector_results) |->
        [id |-> k, point |-> vector_results[k].point,
         vector_score |-> vector_results[k].score, fuzzy_score |-> 0,
         text |-> vector_results[k].text, metadata |-> vector_results[k].metadata,
         strategy |-> vector_results[k].strategy]]

\* combined_results after the fuzzy loop: result.get("id", uuid4()) finds no
\* "id" in a result dictionary, so each fuzzy result gets a fresh uuid, which is
\* in no entry yet, and a new entry
RECURSIVE AddFuzzyEntries(_, _)
AddFuzzyEntries(combined, fuzzy_results) ==
    IF fuzzy_results = <<>> THEN combined
    ELSE LET r      == Head(fuzzy_results)
             doc_id == Len(combined) + 1
             known  == {k \in DOMAIN combined : combined[k].id = doc_id}
         IN  AddFuzzyEntries(
                 IF known # {}
                 THEN [k \in DOMAIN combined |->
                          IF k \in known
                          THEN [combined[k] EXCEPT !.fuzzy_score = r.score]
                          ELSE combined[k]]
                 ELSE Append(combined,
                             [id |-> doc_id, point |-> r.point,
                              vector_score |-> 0, fuzzy_score |-> r.score,
                              text |-> r.text, metadata |-> r.metadata,
                              strategy |-> r.strategy]),
                 Tail(fuzzy_results))

\* combined_score of an entry
CombinedScore(entry, w) == entry.vector_score * w.v + entry.fuzzy_score * w.f

\* results_list: the entries with their combined scores, in insertion order
ResultsList(combined, w) ==
    [k \in DOMAIN combined |->
        [id |-> combined[k].id, point |-> combined[k].point,
         score |-> CombinedScore(combined[k], w),
         vector_score |-> combined[k].vector_score,
         fuzzy_score |-> combined[k].fuzzy_score, text |-> combined[k].text,
         metadata |-> combined[k].metadata, strategy |-> combined[k].strategy]]

\* top_results = sorted results_list[:top_k]
TopResults(results_list, top_k) == Take(SortByScore(results_list), top_k)

\* the chunks of the model: two chunkings of the same text, and two more texts
ChunkPayloads ==
    {[text |-> "x", metadata |-> [page |-> 1], strategy |-> "small"],
     [text |-> "x", metadata |-> [page |-> 1, chunk_type |-> "rolling_window"],
      strategy |-> "rolling_window"],
     [text |-> "y", metadata |-> [page |-> 1], strategy |-> "small"],
     [text |-> "z", metadata |-> [page |-> 2], strategy |-> "small"]}

\* the caller's weights, in tenths: the defaults, twice 1.0, vector only, 0 and 0
WeightPairs == {<<7, 3>>, <<10, 10>>, <<10, 0>>, <<0, 0>>}
HybridTopKs == {1, 2}
StrategyLists == {<<>>, <<"small", "rolling_window">>}

InitHybrid ==
    /\ document_chunks \in {<<>>} \cup SeqsUpTo(ChunkPayloads, MaxChunks)
    /\ hs = NoCall
    /\ InitMemory /\ InitWritersIdle /\ InitMergeIdle /\ InitAnswerIdle /\ InitOthersIdle

\* hybrid_search: every outcome of a call, with its locals. A division by
\* zero while normalizing is caught by the handler of the whole body, which
\* returns the empty list; vector_ok and fuzzy_ok are whether the store
\* answered the search and the scroll
HybridOutcomes(coll, query, strategies, vector_weight, fuzzy_weight, top_k) ==
    IF vector_weight + fuzzy_weight # 10 /\ vector_weight + fuzzy_weight = 0
    THEN {[raised |-> "ZeroDivisionError", top_results |-> <<>>]}
    ELSE LET w == NormalizedWeights(vector_weight, fuzzy_weight)
         IN  {[raised |-> "", weights |-> w,
               vector_results |-> vector_results, fuzzy_results |-> fuzzy_results,
               results_list |->
                   ResultsList(AddFuzzyEntries(VectorEntries(vector_results),
                                               fuzzy_results), w),
               top_results |->
                   TopResults(ResultsList(AddFuzzyEntries(VectorEntries(vector_results),
                                                          fuzzy_results), w), top_k)] :
                 vector_results \in UNION {QueryQdrantMultiStrategy(
                                               coll, query, strategies, top_k * 2, ok) :
                                           ok \in BOOLEAN},
                 fuzzy_results \in UNION {FuzzySearch(coll, query, FuzzyMinScore,
                                                      top_k * 2, ok) : ok \in BOOLEAN}}

\* hybrid_search(collection_name, query_text, strategies, vector_weight,
\* fuzzy_weight, top_k)
HybridSearch ==
    /\ hs = NoCall
    /\ \E query \in Texts, strategies \in StrategyLists, wp \in WeightPairs,
          top_k \in HybridTopKs :
           \E outcome \in HybridOutcomes(document_chunks, query, strategies,
                                         wp[1], wp[2], top_k) :
               hs' = [call |-> [op |-> "hybrid_search", query_text |-> query,
                                strategies |-> strategies, vector_weight |-> wp[1],
                                fuzzy_weight |-> wp[2], top_k |-> top_k],
                      out |-> outcome]
    /\ UNCHANGED <<chat_memory, mm_call, mm_result, writers, mg, document_chunks, aq, fn, ix, au, qc, ui>>

SpecHybrid == InitHybrid /\ [][HybridSearch]_vars

(***************************************************************************)
(* fuzzy_search called on its own.                                         *)
(***************************************************************************)
\* the min_score and top_k values fuzzy_search is called with: the floor of
\* the hybrid caller and a stricter one; top_k down to one entry
FuzzyMinScores == {FuzzyMinScore, 80}
FuzzyTopKs == {1, 2, 4}

InitFuzzy ==
    /\ document_chunks \in {<<>>} \cup SeqsUpTo(ChunkPayloads, MaxChunks)
    /\ fn = NoCall
    /\ hs = NoCall
    /\ InitMemory /\ InitWritersIdle /\ InitMergeIdle /\ InitAnswerIdle
    /\ InitIndexIdle /\ InitAuthIdle /\ InitServicesIdle

\* fuzzy_search(collection_name, query_text, min_score, top_k); page is the
\* page the scroll returned, empty when the store failed
FuzzySearchCall ==
    /\ fn = NoCall
    /\ \E query \in Texts, min_score \in FuzzyMinScores, top_k \in FuzzyTopKs,
          store_ok \in BOOLEAN :
           \E page \in (IF store_ok THEN Scroll(DOMAIN document_chunks) ELSE {<<>>}) :
               fn' = [op |-> "fuzzy_search", query_text |-> query,
                      min_score |-> min_score, top_k |-> top_k,
                      store_ok |-> store_ok, page |-> page,
                      out |-> IF store_ok
                              THEN FuzzyResultsOfPage(document_chunks, page, query,
                                                      min_score, top_k)
                              ELSE <<>>]
    /\ UNCHANGED <<chat_memory, mm_call, mm_result, writers, mg, document_chunks,
                   hs, aq, ix, au, qc, ui>>

SpecFuzzy == InitFuzzy /\ [][FuzzySearchCall]_vars

(***************************************************************************)
(* conversation_aware_rag.py: answer_query_with_conversation_context.      *)
(* A string built by joining parts is kept as the sequence of its parts.   *)
(***************************************************************************)
\* the fixed answer given without any context
NoInfoAnswer ==
    "I don't have enough information to answer that question. Please try a different question or upload relevant documents."
\* what the question-answering model can answer
ModelAnswers == {"ans"}
\* generate_answer when the model call raises: f"Error generating answer: {e}"
GenerationError == "Error generating answer"

\* the defaults of top_k_docs and top_k_conversations, and the context_window
\* the pipeline asks for
TopKDocs == 5
TopKConversations == 3
PipelineContextWindow == 2
\* the default weights of hybrid_search, in tenths
DefaultVectorWeight == 7
DefaultFuzzyWeight == 3

\* rag.generate_answer(query, context): every string it can return; context is
\* given as its sections
GenerateAnswer(query, sections) ==
    IF sections = <<>> THEN {"No information found in the database."}
    ELSE ModelAnswers \cup {GenerationError}

\* a variant in which a text moves to the place of its last chunk
RECURSIVE UniqueChunksLastPlace(_)
UniqueChunksLastPlace(chunks) ==
    IF chunks = <<>> THEN <<>>
    ELSE LET n    == Len(chunks)
             init == UniqueChunksLastPlace(SubSeq(chunks, 1, n - 1))
         IN  Append(SelectSeq(init, LAMBDA c : c.text # chunks[n].text), chunks[n])

\* unique_texts: a dict keyed by chunk text; a text keeps the place of its
\* first chunk and the value of its last
RECURSIVE UniqueChunks(_)
UniqueChunks(chunks) ==
    IF chunks = <<>> THEN <<>>
    ELSE LET n    == Len(chunks)
             init == UniqueChunks(SubSeq(chunks, 1, n - 1))
         IN  IF \E k \in DOMAIN init : init[k].text = chunks[n].text
             THEN [k \in DOMAIN init |->
                      IF init[k].text = chunks[n].text THEN chunks[n] ELSE init[k]]
             ELSE Append(init, chunks[n])

\* a variant that takes only a single empty text for the empty string
JoinedEmptyOnlyBlank(texts) == Len(texts) = 1 /\ texts[1] = ""

\* " ".join(texts) is the empty string
JoinedEmpty(texts) == texts = <<>> \/ (Len(texts) = 1 /\ texts[1] = "")

\* "\n\n".join(parts) is the empty string; every part begins with its label
FormattedEmpty(parts) == parts = <<>>

\* the document entries of all_sources
DocumentSources(unique_chunks) ==
    [k \in DOMAIN unique_chunks |->
        [type |-> "document", text |-> unique_chunks[k].text,
         metadata |-> unique_chunks[k].metadata, score |-> unique_chunks[k].score,
         strategy |-> unique_chunks[k].strategy]]

\* the conversation entries of all_sources; the score 1.0 is 100 percent
ConversationSources(messages) ==
    [k \in DOMAIN messages |->
        [type |-> "conversation", text |-> messages[k].content,
         role |-> messages[k].type, score |-> 100]]

\* document_context: the texts of unique_chunks, joined by blanks
DocumentContext(unique_chunks) ==
    [k \in DOMAIN unique_chunks |-> unique_chunks[k].text]

\* memory_manager.format_context_messages: the parts joined by blank lines
FormatContextMessages(messages) ==
    [k \in DOMAIN messages |->
        [label |-> IF messages[k].type = "human" THEN "User"
                   ELSE IF messages[k].type = "ai" THEN "Assistant" ELSE "System",
         content |-> messages[k].content]]

\* the collections the pipeline is run against
AnswerCollections ==
    {<<>>,
     <<[text |-> "x", metadata |-> [page |-> 1], strategy |-> "small"],
       [text |-> "x", metadata |-> [page |-> 1, chunk_type |-> "rolling_window"],
        strategy |-> "rolling_window"]>>,
     <<[text |-> "z", metadata |-> [page |-> 2], strategy |-> "small"]>>}

\* the (document_weight, conversation_weight) pairs of the callers, in tenths
AnswerWeightPairs == {<<7, 3>>, <<10, 10>>, <<0, 0>>}

InitAnswer ==
    /\ document_chunks \in AnswerCollections
    /\ aq = [pc |-> "idle"]
    /\ hs = NoCall
    /\ InitMemory /\ InitWritersIdle /\ InitMergeIdle /\ InitOthersIdle

AnswerFrame ==
    UNCHANGED <<mm_call, mm_result, writers, mg, document_chunks, hs, fn, ix, au, qc, ui>>

\* line 44: store_message(session_id, query, "user"); a failure of the store
\* is raised to the caller; prior is the number of points the memory held
\* when the call began
AQ_StoreQuery ==
    /\ aq.pc \in {"idle", "returned", "raised"}
    /\ Len(chat_memory) + 2 <= MaxMsgs
    /\ \E s \in Sessions, query \in Texts, use_memory \in BOOLEAN,
          wp \in AnswerWeightPairs, store_ok \in BOOLEAN :
           LET call == [pc |-> "documents", session_id |-> s, query |-> query,
                        use_conversation_memory |-> use_memory,
                        document_weight |-> wp[1], conversation_weight |-> wp[2],
                        prior |-> Len(chat_memory),
                        query_stored |-> store_ok, answer_stored |-> FALSE,
                        generate_calls |-> 0,
                        document_chunks |-> <<>>, document_context |-> <<>>,
                        relevant_messages |-> <<>>, conversation_context |-> <<>>,
                        all_sources |-> <<>>, error |-> ""]
           IN  IF store_ok
               THEN /\ chat_memory' = Upsert(chat_memory,
                                             NewPoint(s, query, "user",
                                                      NextSequenceNum(chat_memory, s)))
                    /\ aq' = call
               ELSE /\ aq' = [call EXCEPT !.pc = "raised", !.error = "store failure"]
                    /\ UNCHANGED chat_memory
    /\ AnswerFrame

\* lines 51-75: hybrid_search, which returns the empty list on any failure, and
\* the document context
AQ_DocumentContext ==
    /\ aq.pc = "documents"
    /\ \E outcome \in HybridOutcomes(document_chunks, aq.query, <<>>,
                                     DefaultVectorWeight, DefaultFuzzyWeight, TopKDocs) :
           LET unique_chunks == UniqueChunks(outcome.top_results)
           IN  aq' = [aq EXCEPT
                        !.pc = IF aq.use_conversation_memory
                               THEN "conversation" ELSE "combine",
                        !.document_chunks = outcome.top_results,
                        !.document_context = DocumentContext(unique_chunks),
                        !.all_sources = DocumentSources(unique_chunks)]
    /\ UNCHANGED chat_memory
    /\ AnswerFrame

\* lines 77-96: retrieve_context_relevant_messages, whose store failures are
\* raised to the caller, and the conversation context
AQ_ConversationContext ==
    /\ aq.pc = "conversation"
    /\ \/ aq' = [aq EXCEPT !.pc = "raised", !.error = "store failure"]
       \/ \E hits \in ConversationSearch(chat_memory, aq.session_id, aq.query,
                                         TopKConversations) :
              \E messages \in ContextMessages(chat_memory, aq.session_id, hits,
                                              PipelineContextWindow) :
                  aq' = [aq EXCEPT
                           !.pc = "combine",
                           !.relevant_messages = messages,
                           !.conversation_context = FormatContextMessages(messages),
                           !.all_sources = aq.all_sources \o ConversationSources(messages)]
    /\ UNCHANGED chat_memory
    /\ AnswerFrame

\* the sections of combined_context
Sections(call) ==
    (IF JoinedEmpty(call.document_context) THEN <<>> ELSE <<"Document Context">>)
    \o (IF FormattedEmpty(call.conversation_context) THEN <<>>
        ELSE <<"Conversation Context">>)

\* lines 104-107: the weights of the section labels, in tenths over den; they
\* are divided by their sum only when both contexts are present
SectionWeights(call) ==
    IF ~JoinedEmpty(call.document_context) /\ ~FormattedEmpty(call.conversation_context)
    THEN [document |-> call.document_weight, conversation |-> call.conversation_weight,
          den |-> call.document_weight + call.conversation_weight]
    ELSE [document |-> call.document_weight, conversation |-> call.conversation_weight,
          den |-> 10]

\* lines 98-120: the fixed answer without any context, else the weights and
\* generate_answer; dividing by a zero total weight raises
AQ_Answer ==
    /\ aq.pc = "combine"
    /\ IF JoinedEmpty(aq.document_context) /\ FormattedEmpty(aq.conversation_context)
       THEN aq' = [aq EXCEPT !.pc = "store_answer"] @@ [answer |-> NoInfoAnswer]
       ELSE IF /\ ~JoinedEmpty(aq.document_context)
               /\ ~FormattedEmpty(aq.conversation_context)
               /\ aq.document_weight + aq.conversation_weight = 0
            THEN aq' = [aq EXCEPT !.pc = "raised", !.error = "ZeroDivisionError"]
            ELSE \E answer \in GenerateAnswer(aq.query, Sections(aq)) :
                     aq' = [aq EXCEPT !.pc = "store_answer",
                                      !.generate_calls = aq.generate_calls + 1]
                           @@ [answer |-> answer, weights |-> SectionWeights(aq)]
    /\ UNCHANGED chat_memory
    /\ AnswerFrame

\* lines 122-131: store_message(session_id, answer, "assistant") and the
\* returned dictionary
AQ_StoreAnswer ==
    /\ aq.pc = "store_answer"
    /\ \/ /\ aq' = [aq EXCEPT !.pc = "raised", !.error = "store failure"]
          /\ UNCHANGED chat_memory
       \/ /\ chat_memory' = Upsert(chat_memory,
                                   NewPoint(aq.session_id, aq.answer, "assistant",
                                            NextSequenceNum(chat_memory, aq.session_id)))
          /\ aq' = [aq EXCEPT !.pc = "returned", !.answer_stored = TRUE]
                   @@ [returned |->
                          [answer |-> aq.answer, sources |-> aq.all_sources,
                           document_context_used |-> ~JoinedEmpty(aq.document_context),
                           conversation_context_used |->
                               ~FormattedEmpty(aq.conversation_context)]]
    /\ AnswerFrame

NextAnswer ==
    \/ AQ_StoreQuery
    \/ AQ_DocumentContext
    \/ AQ_ConversationContext
    \/ AQ_Answer
    \/ AQ_StoreAnswer

SpecAnswer == InitAnswer /\ [][NextAnswer]_vars

(***************************************************************************)
(* The deduplication of the retrieved chunks (lines 59-75 of               *)
(* answer_query_with_conversation_context) as a function of the list       *)
(* hybrid_search returned.                                                 *)
(***************************************************************************)
MaxRetrieved == 4

\* the chunks a retrieval can return: texts that repeat with different
\* metadata, strategy and score
RetrievedChunks ==
    {[text |-> "x", metadata |-> [page |-> 1], score |-> 70, strategy |-> "small"],
     [text |-> "x", metadata |-> [page |-> 1, chunk_type |-> "rolling_window"],
      score |-> 30, strategy |-> "rolling_window"],
     [text |-> "y", metadata |-> [page |-> 1], score |-> 49, strategy |-> "small"],
     [text |-> "z", metadata |-> [page |-> 2], score |-> 28, strategy |-> "small"]}

InitDedupe ==
    /\ fn \in {[op |-> "document_chunks", document_chunks |-> chunks] :
                  chunks \in {<<>>} \cup SeqsUpTo(RetrievedChunks, MaxRetrieved)}
    /\ InitMemory /\ InitWritersIdle /\ InitMergeIdle /\ InitHybridIdle
    /\ InitAnswerIdle /\ InitIndexIdle /\ InitAuthIdle /\ InitServicesIdle

\* lines 59-75: unique_chunks, document_context and the document sources
DedupeChunks ==
    /\ fn.op = "document_chunks"
    /\ LET unique_chunks == UniqueChunks(fn.document_chunks)
       IN  fn' = [op |-> "unique_chunks", document_chunks |-> fn.document_chunks,
                  unique_chunks |-> unique_chunks,
                  document_context |-> DocumentContext(unique_chunks),
                  all_sources |-> DocumentSources(unique_chunks)]
    /\ UNCHANGED <<chat_memory, mm_call, mm_result, writers, mg, document_chunks, hs,
                   aq, ix, au, qc, ui>>

SpecDedupe == InitDedupe /\ [][DedupeChunks]_vars

(***************************************************************************)
(* qdrant_helper.py: index_document_with_strategies. Every upsert of a     *)
(* batch is one request to the store, which can fail.                      *)
(***************************************************************************)
MaxIndexed == 6

\* the chunks given to the call: page_content and metadata
Chunk(text, page) == [page_content |-> text, metadata |-> [page |-> page]]

\* chunking_strategies, a dict in insertion order: strategy_id and chunks
StrategyInputs ==
    {<<>>,
     <<[strategy_id |-> "small",
        chunks |-> <<Chunk("x", 1), Chunk("y", 1), Chunk("z", 2)>>]>>,
     <<[strategy_id |-> "small", chunks |-> <<Chunk("x", 1), Chunk("y", 1)>>],
       [strategy_id |-> "medium", chunks |-> <<>>],
       [strategy_id |-> "large", chunks |-> <<Chunk("z", 2)>>]>>}

\* rolling_window_chunks; None and the empty list are both skipped
RollingInputs == {<<>>, <<Chunk("x", 1), Chunk("z", 2)>>}

\* batch_size
BatchSizes == {1, 2}

\* a variant that cuts batches one chunk longer
BatchAtLonger(chunks, i, batch_size) ==
    SubSeq(chunks, i + 1, Min(i + batch_size + 1, Len(chunks)))

\* batch = chunks[i:i + batch_size]
BatchAt(chunks, i, batch_size) ==
    SubSeq(chunks, i + 1, Min(i + batch_size, Len(chunks)))

\* the points built from the batch at offset i (lines 85-101)
BatchPoints(document_id, strategy_id, chunks, i, batch_size) ==
    LET batch == BatchAt(chunks, i, batch_size)
    IN  [idx \in DOMAIN batch |->
            [document_id |-> document_id, text |-> batch[idx].page_content,
             metadata |-> batch[idx].metadata, chunk_index |-> i + idx - 1,
             strategy |-> strategy_id]]

\* for i in range(0, len(chunks), batch_size): the batches of one list of
\* chunks from offset i on
RECURSIVE ChunkBatches(_, _, _, _, _)
ChunkBatches(document_id, strategy_id, chunks, i, batch_size) ==
    IF i >= Len(chunks) THEN <<>>
    ELSE <<BatchPoints(document_id, strategy_id, chunks, i, batch_size)>>
         \o ChunkBatches(document_id, strategy_id, chunks, i + batch_size, batch_size)

\* the batches of the strategies in dict order; a strategy without chunks
\* is skipped
RECURSIVE StrategyBatches(_, _, _)
StrategyBatches(document_id, strategies, batch_size) ==
    IF strategies = <<>> THEN <<>>
    ELSE ChunkBatches(document_id, Head(strategies).strategy_id,
                      Head(strategies).chunks, 0, batch_size)
         \o StrategyBatches(document_id, Tail(strategies), batch_size)

\* every batch the call upserts, in order: the strategies, then the rolling
\* window chunks
IndexBatches(document_id, strategies, rolling_window_chunks, batch_size) ==
    StrategyBatches(document_id, strategies, batch_size)
    \o ChunkBatches(document_id, "rolling_window", rolling_window_chunks, 0, batch_size)

\* results: one entry per strategy, and one for the rolling window chunks
IndexResults(strategies, rolling_window_chunks) ==
    [k \in DOMAIN strategies |->
        IF strategies[k].chunks = <<>>
        THEN [strategy_id |-> strategies[k].strategy_id, status |-> "error",
              message |-> "No chunks found"]
        ELSE [strategy_id |-> strategies[k].strategy_id, status |-> "success",
              chunks |-> Len(strategies[k].chunks)]]
    \o (IF rolling_window_chunks = <<>> THEN <<>>
        ELSE <<[strategy_id |-> "rolling_window", status |-> "success",
                chunks |-> Len(rolling_window_chunks)]>>)

\* total_chunks
RECURSIVE TotalChunks(_, _)
TotalChunks(strategies, rolling_window_chunks) ==
    IF strategies = <<>> THEN Len(rolling_window_chunks)
    ELSE Len(Head(strategies).chunks) + TotalChunks(Tail(strategies), rolling_window_chunks)

InitIndex ==
    /\ document_chunks = <<>>
    /\ ix = [pc |-> "idle"]
    /\ hs = NoCall
    /\ InitMemory /\ InitWritersIdle /\ InitMergeIdle /\ InitAnswerIdle
    /\ InitFunctionIdle /\ InitAuthIdle /\ InitServicesIdle

IndexFrame ==
    UNCHANGED <<chat_memory, mm_call, mm_result, writers, mg, hs, aq, fn, au, qc, ui>>

\* lines 62-67: the call starts; create_collection_if_not_exists can fail
IX_Start ==
    /\ ix.pc \in {"idle", "returned"}
    /\ \E strategies \in StrategyInputs, rolling \in RollingInputs,
          batch_size \in BatchSizes, store_ok \in BOOLEAN :
           /\ Len(document_chunks) + TotalChunks(strategies, rolling) <= MaxIndexed
           /\ LET call == [pc |-> "upsert", document_id |-> "doc",
                           chunking_strategies |-> strategies,
                           rolling_window_chunks |-> rolling,
                           batch_size |-> batch_size,
                           batches |-> IndexBatches("doc", strategies, rolling, batch_size),
                           next |-> 1, upserts |-> 0, failed_at |-> 0,
                           before |-> document_chunks]
              IN  ix' = IF store_ok THEN call
                        ELSE [call EXCEPT !.pc = "returned"]
                             @@ [result |-> [status |-> "error",
                                             message |-> "store failure"]]
    /\ UNCHANGED document_chunks
    /\ IndexFrame

\* lines 103-107 and 140-144: the upsert of the next batch; a failure is
\* caught at line 156 and ends the call
IX_Upsert ==
    /\ ix.pc = "upsert"
    /\ ix.next <= Len(ix.batches)
    /\ \/ /\ document_chunks' = document_chunks \o ix.batches[ix.next]
          /\ ix' = [ix EXCEPT !.next = ix.next + 1, !.upserts = ix.upserts + 1]
       \/ /\ ix' = [ix EXCEPT !.pc = "returned", !.upserts = ix.upserts + 1,
                              !.failed_at = ix.next]
                   @@ [result |-> [status |-> "error", message |-> "store failure"]]
          /\ UNCHANGED document_chunks
    /\ IndexFrame

\* lines 149-158: get_collection and the result; a failure of get_collection
\* is caught as well
IX_Return ==
    /\ ix.pc = "upsert"
    /\ ix.next > Len(ix.batches)
    /\ \/ ix' = [ix EXCEPT !.pc = "returned"]
                @@ [result |->
                       [status |-> "success",
                        strategies |-> IndexResults(ix.chunking_strategies,
                                                    ix.rolling_window_chunks),
                        total_chunks |-> TotalChunks(ix.chunking_strategies,
                                                     ix.rolling_window_chunks)]]
       \/ ix' = [ix EXCEPT !.pc = "returned"]
                @@ [result |-> [status |-> "error", message |-> "store failure"]]
    /\ UNCHANGED document_chunks
    /\ IndexFrame

NextIndex == IX_Start \/ IX_Upsert \/ IX_Return

SpecIndex == InitIndex /\ [][NextIndex]_vars

(***************************************************************************)
(* document_loader.py: create_rolling_window_chunks. A text is the         *)
(* sequence of its characters; the character at offset i of a document is  *)
(* written i + 1, so that a slice shows where it was cut.                  *)
(***************************************************************************)
MaxDocLen == 6
MaxWindow == 3
MaxStep == 3
MaxDocs == 2

\* a loaded document of the given length; source tells the documents apart
Document(source, length) ==
    [page_content |-> [i \in 1..length |-> i], metadata |-> [source |-> source]]

\* text[i:i + window_size]
Slice(text, i, window_size) ==
    SubSeq(text, i + 1, Min(i + window_size, Len(text)))

\* a variant of the loop bounds that stops before the last full window
WindowOffsetsShort(length, window_size, step_size) ==
    {i \in 0..(length - window_size - 1) : i % step_size = 0}

\* range(0, len(text) - window_size + 1, step_size)
WindowOffsets(length, window_size, step_size) ==
    {i \in 0..(length - window_size) : i % step_size = 0}

\* the chunk cut at offset i: the slice, and the document's metadata updated
\* with the position
WindowChunk(doc, i, window_size) ==
    [page_content |-> Slice(doc.page_content, i, window_size),
     metadata |-> [source |-> doc.metadata.source, chunk_start |-> i,
                   chunk_end |-> i + window_size, chunk_type |-> "rolling_window"]]

\* the chunks of one document: itself when it is no longer than the window,
\* else one chunk per offset, in ascending order
DocumentChunks(doc, window_size, step_size) ==
    IF Len(doc.page_content) <= window_size THEN <<doc>>
    ELSE LET offsets == WindowOffsets(Len(doc.page_content), window_size, step_size)
         IN  [k \in 1..Cardinality(offsets) |->
                 WindowChunk(doc, (k - 1) * step_size, window_size)]

\* rolling_chunks over the documents
RECURSIVE RollingChunks(_, _, _)
RollingChunks(documents, window_size, step_size) ==
    IF documents = <<>> THEN <<>>
    ELSE DocumentChunks(Head(documents), window_size, step_size)
         \o RollingChunks(Tail(documents), window_size, step_size)

InitRolling ==
    /\ \E n \in 1..MaxDocs : \E lengths \in [1..n -> 0..MaxDocLen] :
       \E window_size \in 1..MaxWindow, step_size \in 1..MaxStep :
           fn = [op |-> "documents",
                 documents |-> [k \in 1..n |-> Document(k, lengths[k])],
                 window_size |-> window_size, step_size |-> step_size]
    /\ InitMemory /\ InitWritersIdle /\ InitMergeIdle /\ InitHybridIdle
    /\ InitAnswerIdle /\ InitIndexIdle /\ InitAuthIdle /\ InitServicesIdle

\* create_rolling_window_chunks(documents, window_size, step_size)
CreateRollingWindowChunks ==
    /\ fn.op = "documents"
    /\ fn' = [op |-> "rolling_chunks", documents |-> fn.documents,
              window_size |-> fn.window_size, step_size |-> fn.step_size,
              rolling_chunks |-> RollingChunks(fn.documents, fn.window_size,
                                               fn.step_size)]
    /\ UNCHANGED <<chat_memory, mm_call, mm_result, writers, mg, document_chunks, hs,
                   aq, ix, au, qc, ui>>

SpecRolling == InitRolling /\ [][CreateRollingWindowChunks]_vars

(***************************************************************************)
(* authentication.py: users, session tokens and their expiry. One request  *)
(* at a time; the clock only moves forward. Time is counted in units of    *)
(* twelve hours.                                                           *)
(***************************************************************************)
MaxTokens == 2
MaxClock == 4

\* SESSION_DURATION = timedelta(hours=24), in units of twelve hours
SessionDuration == 2

Usernames == {"alice", "bob"}
Passwords == {"pw", "bad"}
Emails == {"a@x", "b@x"}
\* what a caller can pass as a session id: a token, or the empty string
TokenArgs == 0..MaxTokens

\* hash_password / verify_password: bcrypt, whose salt the model leaves out
HashPassword(password) == <<"bcrypt", password>>
VerifyPassword(stored_password, provided_password) ==
    stored_password = HashPassword(provided_password)

\* a variant of the expiry test that also rejects the last instant
ExpiredAtBoundary(now, expiry) == now >= expiry

\* validate_session, line 118: datetime.now() > expiry
Expired(now, expiry) == now > expiry

\* the user database after init_user_db on an existing file with one user;
\* issued, logged_out and seen_expired record the history of the tokens
InitAuth ==
    /\ au = [users |-> [u \in {"alice"} |->
                           [password |-> HashPassword("pw"), email |-> "a@x",
                            documents |-> {}]],
             sessions |-> <<>>,
             clock |-> 0,
             uuids |-> 0,
             issued |-> <<>>, logged_out |-> {}, seen_expired |-> {},
             last |-> [op |-> "none"]]
    /\ document_chunks = <<>> /\ hs = NoCall
    /\ InitMemory /\ InitWritersIdle /\ InitMergeIdle /\ InitAnswerIdle
    /\ InitFunctionIdle /\ InitIndexIdle /\ InitServicesIdle

AuthFrame ==
    UNCHANGED <<chat_memory, mm_call, mm_result, writers, mg, document_chunks, hs,
                aq, fn, ix, qc, ui>>

\* time passes
AuthTick ==
    /\ au.clock < MaxClock
    /\ au' = [au EXCEPT !.clock = au.clock + 1, !.last = [op |-> "none"]]
    /\ AuthFrame

\* create_user(username, password, email)
CreateUser ==
    /\ \E username \in Usernames, password \in Passwords, email \in Emails :
               IF username \in DOMAIN au.users
               THEN au' = [au EXCEPT !.last =
                              [op |-> "create_user", username |-> username,
                               result |-> <<FALSE, "Username already exists">>]]
               ELSE IF \E u \in DOMAIN au.users : au.users[u].email = email
               THEN au' = [au EXCEPT !.last =
                              [op |-> "create_user", username |-> username,
                               result |-> <<FALSE, "Email already registered">>]]
               ELSE au' = [au EXCEPT
                             !.users = [u \in DOMAIN au.users \cup {username} |->
                                           IF u = username
                                           THEN [password |-> HashPassword(password),
                                                 email |-> email, documents |-> {}]
                                           ELSE au.users[u]],
                             !.last = [op |-> "create_user", username |-> username,
                                       result |-> <<TRUE, "User created successfully">>]]
    /\ AuthFrame

\* authenticate_user(username, password); session_id is a fresh uuid
AuthenticateUser ==
    /\ au.uuids < MaxTokens
    /\ \E username \in Usernames, password \in Passwords :
           IF \/ username \notin DOMAIN au.users
              \/ ~VerifyPassword(au.users[username].password, password)
           THEN au' = [au EXCEPT !.last =
                          [op |-> "authenticate_user", username |-> username,
                           result |-> <<FALSE, "Invalid username or password">>]]
           ELSE LET session_id == au.uuids + 1
                    expiry     == au.clock + SessionDuration
                IN  au' = [au EXCEPT
                             !.uuids = session_id,
                             !.sessions =
                                 [t \in DOMAIN au.sessions \cup {session_id} |->
                                     IF t = session_id
                                     THEN [username |-> username, expires |-> expiry]
                                     ELSE au.sessions[t]],
                             !.issued = [t \in DOMAIN au.issued \cup {session_id} |->
                                            IF t = session_id THEN au.clock
                                            ELSE au.issued[t]],
                             !.last = [op |-> "authenticate_user",
                                       username |-> username,
                                       result |-> <<TRUE, session_id>>]]
    /\ AuthFrame

\* validate_session(session_id); 0 stands for the empty session id
ValidateSession ==
    /\ \E session_id \in TokenArgs :
           LET call == [op |-> "validate_session", session_id |-> session_id,
                        now |-> au.clock]
           IN  IF session_id = 0 \/ session_id \notin DOMAIN au.sessions
               THEN au' = [au EXCEPT !.last = call @@ [result |-> <<FALSE, None>>]]
               ELSE IF Expired(au.clock, au.sessions[session_id].expires)
               THEN au' = [au EXCEPT
                             !.sessions = [t \in DOMAIN au.sessions \ {session_id} |->
                                              au.sessions[t]],
                             !.seen_expired = au.seen_expired \cup {session_id},
                             !.last = call @@ [result |-> <<FALSE, None>>]]
               ELSE au' = [au EXCEPT !.last =
                              call @@ [result |->
                                          <<TRUE, au.sessions[session_id].username>>]]
    /\ AuthFrame

\* logout_user(session_id)
LogoutUser ==
    /\ \E session_id \in TokenArgs :
           IF session_id \in DOMAIN au.sessions
           THEN au' = [au EXCEPT
                         !.sessions = [t \in DOMAIN au.sessions \ {session_id} |->
                                          au.sessions[t]],
                         !.logged_out = au.logged_out \cup {session_id},
                         !.last = [op |-> "logout_user", session_id |-> session_id,
                                   result |-> TRUE]]
           ELSE au' = [au EXCEPT !.last =
                          [op |-> "logout_user", session_id |-> session_id,
                           result |-> FALSE]]
    /\ AuthFrame

NextAuth ==
    \/ AuthTick
    \/ CreateUser
    \/ AuthenticateUser
    \/ ValidateSession
    \/ LogoutUser

SpecAuth == InitAuth /\ [][NextAuth]_vars

(***************************************************************************)
(* Ensuring that a collection exists: create_collection_if_not_exists      *)
(* (qdrant_helper.py) and ensure_memory_collection_exists                  *)
(* (memory_manager.py).  Each lists the store's collections and creates    *)
(* the one it needs when its name is not in the list: two requests to the  *)
(* store, between which other callers run.  The store refuses to create a  *)
(* collection that exists and keeps it as it is.                           *)
(***************************************************************************)
\* the largest number of points a collection holds
MaxPoints == 2

CollectionNames == {"chat_memory", "document_chunks"}
\* two callers that may run at the same time
Callers == {"c1", "c2"}

\* the calls: create_collection_if_not_exists(collection_name) and
\* ensure_memory_collection_exists(), which ensures COLLECTION_NAME
EnsureCalls ==
    {[fn |-> "create_collection_if_not_exists", name |-> n] : n \in CollectionNames}
        \cup {[fn |-> "ensure_memory_collection_exists", name |-> "chat_memory"]}

NoCreate == [op |-> "none"]

InitEnsure ==
    /\ qc = [exists |-> {},
             points |-> [n \in CollectionNames |-> 0],
             callers |-> [c \in Callers |-> [pc |-> "idle"]],
             last_create |-> NoCreate]
    /\ InitMemory /\ InitWritersIdle /\ InitMergeIdle /\ InitHybridIdle /\ InitAnswerIdle
    /\ InitFunctionIdle /\ InitIndexIdle /\ InitAuthIdle /\ InitInterfaceIdle

EnsureFrame ==
    UNCHANGED <<chat_memory, mm_call, mm_result, writers, mg, document_chunks, hs,
                aq, fn, ix, au, ui>>

\* get_collections(): the caller keeps the names it was given; the request
\* can fail, and the exception leaves the function
EnsureList(c) ==
    /\ qc.callers[c].pc = "idle"
    /\ \E call \in EnsureCalls, store_ok \in BOOLEAN :
           qc' = [qc EXCEPT !.callers[c] =
                      IF store_ok
                      THEN [pc |-> "listed", fn |-> call.fn, name |-> call.name,
                            names |-> qc.exists]
                      ELSE [pc |-> "raised", fn |-> call.fn, name |-> call.name]]
    /\ EnsureFrame

\* if the name is not in the list: create_collection(name); else return
EnsureCreate(c) ==
    /\ qc.callers[c].pc = "listed"
    /\ LET me == qc.callers[c]
           returned == [pc |-> "returned", fn |-> me.fn, name |-> me.name]
           raised == [pc |-> "raised", fn |-> me.fn, name |-> me.name]
       IN  IF me.name \in me.names
           THEN qc' = [qc EXCEPT !.callers[c] = returned]
           ELSE \E store_ok \in BOOLEAN :
                   IF ~store_ok
                   THEN qc' = [qc EXCEPT !.callers[c] = raised]
                   ELSE IF me.name \in qc.exists
                   THEN qc' = [qc EXCEPT !.callers[c] = raised,
                                         !.last_create =
                                             [op |-> "create_collection",
                                              name |-> me.name, existed |-> TRUE]]
                   ELSE qc' = [qc EXCEPT !.callers[c] = returned,
                                         !.exists = @ \cup {me.name},
                                         !.points[me.name] = 0,
                                         !.last_create =
                                             [op |-> "create_collection",
                                              name |-> me.name, existed |-> FALSE]]
    /\ EnsureFrame

\* the call is over; the caller may call again
EnsureReturn(c) ==
    /\ qc.callers[c].pc \in {"returned", "raised"}
    /\ qc' = [qc EXCEPT !.callers[c] = [pc |-> "idle"]]
    /\ EnsureFrame

\* upsert(collection_name, points) by a client of an existing collection
UpsertPoint ==
    /\ \E n \in qc.exists :
           /\ qc.points[n] < MaxPoints
           /\ qc' = [qc EXCEPT !.points[n] = @ + 1]
    /\ EnsureFrame

NextEnsure ==
    \/ \E c \in Callers : EnsureList(c) \/ EnsureCreate(c) \/ EnsureReturn(c)
    \/ UpsertPoint

SpecEnsure == InitEnsure /\ [][NextEnsure]_vars

(***************************************************************************)
(* A chat turn of the user interface (app.py, lines 80-104): the chat      *)
(* input handler stores the query, calls                                   *)
(* answer_query_with_conversation_context and stores the answer.           *)
(***************************************************************************)
\* SESSION_ID = "user_session": the single session of app.py, one of the
\* sessions of the model
SESSION_ID == "A"

\* the points of the UI's session
TurnPoints == SessionPoints(chat_memory, SESSION_ID)

InitTurn ==
    /\ document_chunks \in AnswerCollections
    /\ aq = [pc |-> "idle"]
    /\ hs = NoCall
    /\ ui = [pc |-> "idle"]
    /\ InitMemory /\ InitWritersIdle /\ InitMergeIdle
    /\ InitFunctionIdle /\ InitIndexIdle /\ InitAuthIdle /\ InitCollectionsIdle

TurnFrame ==
    UNCHANGED <<mm_call, mm_result, writers, mg, document_chunks, hs, fn, ix, au, qc>>

\* lines 80-86: a query arrives and store_message(SESSION_ID, query, "user");
\* an exception ends the script run. before is the number of messages of
\* the session and stored the number of points of the collection when the
\* turn began
UI_StoreQuery ==
    /\ ui.pc \in {"idle", "done"}
    /\ Len(chat_memory) + 4 <= MaxMsgs
    /\ \E query \in Texts, use_memory \in BOOLEAN, store_ok \in BOOLEAN :
           LET turn == [pc |-> "answering", query |-> query,
                        use_conversation_memory |-> use_memory,
                        before |-> Cardinality(TurnPoints),
                        stored |-> Len(chat_memory), error |-> ""]
           IN  IF store_ok
               THEN /\ chat_memory' = Upsert(chat_memory,
                                             NewPoint(SESSION_ID, query, "user",
                                                      NextSequenceNum(chat_memory,
                                                                      SESSION_ID)))
                    /\ ui' = turn
               ELSE /\ ui' = [turn EXCEPT !.pc = "done", !.error = "store failure"]
                    /\ UNCHANGED chat_memory
    /\ aq' = [pc |-> "idle"]
    /\ TurnFrame

\* lines 90-96: answer_query_with_conversation_context(session_id=SESSION_ID,
\* query=query, use_conversation_memory=..., conversation_weight=0.3,
\* document_weight=0.7), step by step
UI_Answer ==
    /\ ui.pc = "answering"
    /\ \/ /\ aq.pc = "idle"
          /\ AQ_StoreQuery
          /\ aq'.session_id = SESSION_ID
          /\ aq'.query = ui.query
          /\ aq'.use_conversation_memory = ui.use_conversation_memory
          /\ aq'.document_weight = 7
          /\ aq'.conversation_weight = 3
       \/ AQ_DocumentContext
       \/ AQ_ConversationContext
       \/ AQ_Answer
       \/ AQ_StoreAnswer

\* lines 98-104: the answer is shown and
\* store_message(SESSION_ID, response["answer"], "assistant")
UI_StoreAnswer ==
    /\ ui.pc = "answering"
    /\ aq.pc = "returned"
    /\ \E store_ok \in BOOLEAN :
           IF store_ok
           THEN /\ chat_memory' = Upsert(chat_memory,
                                         NewPoint(SESSION_ID, aq.returned.answer,
                                                  "assistant",
                                                  NextSequenceNum(chat_memory,
                                                                  SESSION_ID)))
                /\ ui' = [ui EXCEPT !.pc = "done"]
           ELSE /\ ui' = [ui EXCEPT !.pc = "done", !.error = "store failure"]
                /\ UNCHANGED chat_memory
    /\ UNCHANGED aq
    /\ TurnFrame

\* an exception of the call ends the script run
UI_Raised ==
    /\ ui.pc = "answering"
    /\ aq.pc = "raised"
    /\ ui' = [ui EXCEPT !.pc = "done", !.error = aq.error]
    /\ UNCHANGED <<chat_memory, aq>>
    /\ TurnFrame

NextTurn ==
    \/ UI_StoreQuery
    \/ UI_Answer
    \/ UI_StoreAnswer
    \/ UI_Raised

SpecTurn == InitTurn /\ [][NextTurn]_vars

(***************************************************************************)
(* The user database under two callers at a time.  Every function of       *)
(* authentication.py reads the whole file (init_user_db), changes its copy *)
(* and writes the whole file back (save_user_db); nothing keeps another    *)
(* caller from running between the two.                                    *)
(***************************************************************************)
\* two browser sessions whose script runs may overlap
Procs == {"p1", "p2"}

\* the calls: a sign-up of bob, a login of alice, and validate_session and
\* logout_user for a token issued so far
RaceCalls(uuids) ==
    {[op |-> "create_user", username |-> "bob", email |-> "b@x"],
     [op |-> "authenticate_user", username |-> "alice"]}
        \cup {[op |-> o, session_id |-> t] :
                 o \in {"validate_session", "logout_user"}, t \in 1..uuids}

\* the database with the session t removed
WithoutSession(db, t) ==
    [db EXCEPT !.sessions = [x \in DOMAIN db.sessions \ {t} |-> db.sessions[x]]]

\* the database with the session t of username added
WithSession(db, t, username, expiry) ==
    [db EXCEPT !.sessions = [x \in DOMAIN db.sessions \cup {t} |->
                                IF x = t THEN [username |-> username, expires |-> expiry]
                                ELSE db.sessions[x]]]

\* user_database.json with the user alice; issued, logged_out, expired and
\* created record what the calls that returned have done
InitAuthRace ==
    /\ au = [db |-> [users |-> {"alice"}, sessions |-> <<>>],
             clock |-> 0, uuids |-> 0,
             procs |-> [p \in Procs |-> [pc |-> "idle"]],
             issued |-> {}, logged_out |-> {}, expired |-> {}, created |-> {}]
    /\ document_chunks = <<>> /\ hs = NoCall
    /\ InitMemory /\ InitWritersIdle /\ InitMergeIdle /\ InitAnswerIdle
    /\ InitFunctionIdle /\ InitIndexIdle /\ InitServicesIdle

\* time passes
Race_Tick ==
    /\ au.clock < MaxClock
    /\ au' = [au EXCEPT !.clock = @ + 1]
    /\ AuthFrame

\* db = init_user_db(): the caller loads the file
Race_Load(p) ==
    /\ au.procs[p].pc = "idle"
    /\ \E call \in RaceCalls(au.uuids) :
           au' = [au EXCEPT !.procs[p] = [pc |-> "loaded", call |-> call, db |-> au.db]]
    /\ AuthFrame

\* the rest of the function: the checks on the caller's copy, its change and
\* save_user_db(db), after which the file is the caller's copy
Race_Save(p) ==
    /\ au.procs[p].pc = "loaded"
    /\ LET call == au.procs[p].call
           db   == au.procs[p].db
           idle == [au EXCEPT !.procs[p] = [pc |-> "idle"]]
       IN  CASE call.op = "create_user" ->
                   IF call.username \in db.users
                   THEN au' = idle
                   ELSE au' = [idle EXCEPT
                                 !.db = [db EXCEPT !.users = @ \cup {call.username}],
                                 !.created = @ \cup {call.username}]
             [] call.op = "authenticate_user" ->
                   /\ au.uuids < MaxTokens
                   /\ au' = [idle EXCEPT
                               !.uuids = @ + 1,
                               !.db = WithSession(db, au.uuids + 1, call.username,
                                                  au.clock + SessionDuration),
                               !.issued = @ \cup {au.uuids + 1}]
             [] call.op = "validate_session" ->
                   IF call.session_id \notin DOMAIN db.sessions
                   THEN au' = idle
                   ELSE IF Expired(au.clock, db.sessions[call.session_id].expires)
                   THEN au' = [idle EXCEPT
                                 !.db = WithoutSession(db, call.session_id),
                                 !.expired = @ \cup {call.session_id}]
                   ELSE au' = idle
             [] call.op = "logout_user" ->
                   IF call.session_id \in DOMAIN db.sessions
                   THEN au' = [idle EXCEPT
                                 !.db = WithoutSession(db, call.session_id),
                                 !.logged_out = @ \cup {call.session_id}]
                   ELSE au' = idle
    /\ AuthFrame

NextAuthRace ==
    \/ Race_Tick
    \/ \E p \in Procs : Race_Load(p) \/ Race_Save(p)

SpecAuthRace == InitAuthRace /\ [][NextAuthRace]_vars

(***************************************************************************)
(* The authenticated user interface (authentication.py): script runs of    *)
(* main() in one browser session, and the handlers of the login page and   *)
(* of the main application.  A handler that calls into the user database   *)
(* takes the step of that call and then a step of its own; ui.pc tells     *)
(* which handler is under way.  The sign-up tab is left out: the database  *)
(* starts with two users.                                                  *)
(***************************************************************************)
\* what is uploaded or scraped: the name of a file or the URL of a page,
\* which the handlers treat alike
DocumentNames == {"a.pdf"}

\* f"{username}_documents" and f"{username}_{SESSION_ID}", as their parts
UserDocumentCollection(username) == <<username, "documents">>
UserSessionId(username) == <<username, "user_session">>

InitMain ==
    /\ au = [users |-> [u \in Usernames |->
                           [password |-> HashPassword("pw"),
                            email |-> IF u = "alice" THEN "a@x" ELSE "b@x",
                            documents |-> {}]],
             sessions |-> <<>>,
             clock |-> 0,
             uuids |-> 0,
             issued |-> <<>>, logged_out |-> {}, seen_expired |-> {},
             last |-> [op |-> "none"]]
    /\ ui = [pc |-> "idle", page |-> "none", widgets |-> FALSE,
             authenticated |-> FALSE, username |-> "", session_id |-> 0,
             has_messages |-> FALSE, error |-> "", valid_at_run |-> FALSE,
             indexed |-> [c \in {UserDocumentCollection(u) : u \in Usernames} |-> {}],
             event |-> [op |-> "none"]]
    /\ document_chunks = <<>> /\ hs = NoCall
    /\ InitMemory /\ InitWritersIdle /\ InitMergeIdle /\ InitAnswerIdle
    /\ InitFunctionIdle /\ InitIndexIdle /\ InitCollectionsIdle

MainFrame ==
    UNCHANGED <<chat_memory, mm_call, mm_result, writers, mg, document_chunks, hs,
                aq, fn, ix, qc>>

\* time passes between two handlers
Main_Tick ==
    /\ ui.pc = "idle"
    /\ au.last.op = "none"
    /\ AuthTick

\* main(), lines 437-446: a script run begins; init_auth_state changes
\* nothing once the keys exist
Main_Begin ==
    /\ ui.pc = "idle"
    /\ au.last.op = "none"
    /\ ui' = [ui EXCEPT !.pc = "check", !.event = [op |-> "none"]]
    /\ au' = [au EXCEPT !.last = [op |-> "none"]]
    /\ MainFrame

\* check_existing_session, line 428: validate_session(st.session_state.session_id)
Main_Validate ==
    /\ ui.pc = "check"
    /\ ui.session_id # 0
    /\ au.last.op = "none"
    /\ ValidateSession
    /\ au'.last.session_id = ui.session_id

\* check_existing_session, lines 429-434, and main(), lines 449-452: a valid
\* session sets authenticated and username, an invalid one changes nothing;
\* then the page is chosen by st.session_state.authenticated.  show_main_app
\* sets st.session_state.messages on its first run and then calls
\* get_user_session_id(), which reads the name SESSION_ID that the module
\* does not define: the run ends in a NameError before any widget is drawn
Main_Show ==
    /\ ui.pc = "check"
    /\ ui.session_id = 0 \/ au.last.op = "validate_session"
    /\ LET valid == ui.session_id # 0 /\ au.last.result[1]
           authenticated == IF valid THEN TRUE ELSE ui.authenticated
           username == IF valid THEN au.last.result[2] ELSE ui.username
       IN  ui' = [ui EXCEPT
                    !.pc = "idle",
                    !.authenticated = authenticated,
                    !.username = username,
                    !.valid_at_run = valid,
                    !.page = IF authenticated THEN "main" ELSE "login",
                    !.has_messages = IF authenticated THEN TRUE ELSE @,
                    !.error = IF authenticated /\ ~ui.has_messages
                              THEN "NameError" ELSE "",
                    !.widgets = ~(authenticated /\ ~ui.has_messages)]
    /\ au' = [au EXCEPT !.last = [op |-> "none"]]
    /\ MainFrame

\* show_login_page, lines 159-161: the Login button with both fields filled in
Login_Authenticate ==
    /\ ui.pc = "idle"
    /\ ui.page = "login"
    /\ au.last.op = "none"
    /\ AuthenticateUser

\* show_login_page, lines 162-169: the result of authenticate_user; st.rerun()
\* begins the next script run, st.error shows the message
Login_Result ==
    /\ ui.pc = "idle"
    /\ ui.page = "login"
    /\ au.last.op = "authenticate_user"
    /\ ui' = IF au.last.result[1]
             THEN [ui EXCEPT !.pc = "check",
                             !.authenticated = TRUE,
                             !.username = au.last.username,
                             !.session_id = au.last.result[2],
                             !.event = [op |-> "login", username |-> au.last.username]]
             ELSE [ui EXCEPT !.event = [op |-> "login_failed",
                                        username |-> au.last.username]]
    /\ au' = [au EXCEPT !.last = [op |-> "none"]]
    /\ MainFrame

\* show_main_app, lines 234-235: the Logout button, logout_user(session_id)
Logout_Call ==
    /\ ui.pc = "idle"
    /\ ui.page = "main" /\ ui.widgets
    /\ au.last.op = "none"
    /\ LogoutUser
    /\ au'.last.session_id = ui.session_id

\* show_main_app, lines 236-239: the session state is reset; st.rerun()
\* begins the next script run
Logout_Result ==
    /\ ui.pc = "idle"
    /\ ui.page = "main"
    /\ au.last.op = "logout_user"
    /\ ui' = [ui EXCEPT !.pc = "check",
                        !.authenticated = FALSE, !.username = "", !.session_id = 0,
                        !.event = [op |-> "logout"]]
    /\ au' = [au EXCEPT !.last = [op |-> "none"]]
    /\ MainFrame

\* show_main_app, lines 241-266 and 281-303: a document is uploaded or a URL
\* scraped; index_document_with_strategies(user_document_collection, ...)
\* reports a failure in its response, and the name is added to the user's
\* documents in the database either way
Main_Upload ==
    /\ ui.pc = "idle"
    /\ ui.page = "main" /\ ui.widgets
    /\ au.last.op = "none"
    /\ \E doc \in DocumentNames, indexed_ok \in BOOLEAN :
           /\ ui' = [ui EXCEPT
                        !.indexed[UserDocumentCollection(ui.username)] =
                            IF indexed_ok THEN @ \cup {doc} ELSE @,
                        !.event = [op |-> "upload", username |-> ui.username,
                                   collection |-> UserDocumentCollection(ui.username),
                                   document |-> doc, indexed |-> indexed_ok]]
           /\ au' = [au EXCEPT !.users[ui.username].documents = @ \cup {doc}]
    /\ MainFrame

\* show_main_app, lines 347-353: a query is typed; it is appended to
\* st.session_state.messages and store_message(get_user_session_id(), ...)
\* raises the NameError of get_user_session_id, which ends the run
Main_Chat ==
    /\ ui.pc = "idle"
    /\ ui.page = "main" /\ ui.widgets
    /\ au.last.op = "none"
    /\ \E query \in Texts :
           ui' = [ui EXCEPT !.error = "NameError",
                           !.event = [op |-> "chat", username |-> ui.username,
                                      query |-> query]]
    /\ UNCHANGED au
    /\ MainFrame

NextMain ==
    \/ Main_Tick
    \/ Main_Begin
    \/ Main_Validate
    \/ Main_Show
    \/ Login_Authenticate
    \/ Login_Result
    \/ Logout_Call
    \/ Logout_Result
    \/ Main_Upload
    \/ Main_Chat

SpecMain == InitMain /\ [][NextMain]_vars

(***************************************************************************)
(* Properties of the memory store (checked under Spec).                    *)
(***************************************************************************)
\* the points of session s, in the order they were stored
SessionLog(coll, s) == SelectSeq(coll, LAMBDA p : p.session_id = s)

\* the last call was retrieve_context_relevant_messages
IsContextCall == mm_call.op = "retrieve_context_relevant_messages"
\* the last call was retrieve_messages_by_sequence
IsSequenceCall == mm_call.op = "retrieve_messages_by_sequence"

\* C1: session isolation. Every message retrieve_context_relevant_messages
\* returns for a session is the message of a point stored under that session;
\* a content stored only under another session is never returned.
C1_SessionIsolation ==
    IsContextCall =>
        \A k \in DOMAIN mm_result :
            \E i \in SessionPoints(chat_memory, mm_call.session_id) :
                MessageOf(chat_memory[i]) = mm_result[k]

\* C1 witness: a non-empty result for session B while session A holds a
\* content that no point of B has.
C1_Witness ==
    /\ IsContextCall
    /\ mm_call.session_id = "B"
    /\ mm_result # <<>>
    /\ \E i \in SessionPoints(chat_memory, "A") :
           \A j \in SessionPoints(chat_memory, "B") :
               chat_memory[j].content # chat_memory[i].content

\* C2: with one writer at a time, the k-th message stored in a session
\* carries sequence_num = k (sequence numbers start at 1, increase strictly
\* and are pairwise distinct), for any number of messages of the session.
C2_SequenceNumbersCount ==
    \A s \in Sessions :
        \A k \in 1..Len(SessionLog(chat_memory, s)) :
            SessionLog(chat_memory, s)[k].sequence_num = k

\* C9: retrieve_messages_by_sequence returns exactly the messages of the
\* session's points whose sequence_num lies in the range, in ascending
\* sequence_num order, whatever the page order and also with equal contents.
C9_RangeInSequenceOrder ==
    IsSequenceCall =>
        LET M == {i \in DOMAIN chat_memory :
                    /\ chat_memory[i].session_id = mm_call.session_id
                    /\ mm_call.start_seq # None =>
                           chat_memory[i].sequence_num >= mm_call.start_seq[1]
                    /\ mm_call.end_seq # None =>
                           chat_memory[i].sequence_num <= mm_call.end_seq[1]}
            n == Cardinality(M)
        IN  \E ord \in Arrangements(M, n) :
                /\ \A k \in 1..(n - 1) :
                       chat_memory[ord[k]].sequence_num <= chat_memory[ord[k + 1]].sequence_num
                /\ mm_result = [k \in 1..n |-> MessageOf(chat_memory[ord[k]])]

(***************************************************************************)
(* Properties of concurrent writers (checked under SpecRace).              *)
(***************************************************************************)
\* C3: store_message is not atomic between the count and the upsert. A call
\* during which no other call stored a message in the same session assigns
\* the sequence number an atomic call would assign at the time of its upsert,
\* whatever calls on other sessions ran in between; only calls that
\* interleave on one session can diverge from it.
C3_OnlySameSessionRaces ==
    [][\A w \in Writers :
          (writers[w].pc = "upsert" /\ writers'[w].pc = "idle" /\ ~writers[w].raced)
              => chat_memory'[Len(chat_memory')].sequence_num
                     = ScrollLen(SessionPoints(chat_memory, writers[w].session_id)) + 1]_vars

\* C3 witness: two interleaved calls left two messages of one session with the
\* same sequence_num, in a session that fits in one scroll page.
C3_Witness ==
    \E s \in Sessions :
        /\ Cardinality(SessionPoints(chat_memory, s)) <= ScrollLimit
        /\ \E i, j \in SessionPoints(chat_memory, s) :
               i # j /\ chat_memory[i].sequence_num = chat_memory[j].sequence_num

(***************************************************************************)
(* Properties of the range merge (checked under SpecMerge).                *)
(***************************************************************************)
\* n lies in the context window of a matched sequence number
InSomeWindow(n) ==
    \E j \in DOMAIN mg.matched :
        /\ n >= (IF mg.matched[j] - mg.context_window > 1
                 THEN mg.matched[j] - mg.context_window ELSE 1)
        /\ n <= mg.matched[j] + mg.context_window

\* n lies in a merged range
InSomeRange(n) ==
    \E k \in DOMAIN mg.merged_ranges :
        mg.merged_ranges[k][1] <= n /\ n <= mg.merged_ranges[k][2]

\* C10: for every non-empty list of matched sequence numbers and every
\* context window w >= 0 the merged ranges are ascending, pairwise disjoint
\* and non-adjacent (each starts above the previous end + 1), and cover
\* exactly the union of the windows [max(1, s - w), s + w]; {3, 10} with
\* w = 2 gives [(1,5), (8,12)] and {3, 5} with w = 2 gives [(1,7)].
C10_MergedRanges ==
    mg.op = "merged" =>
        /\ mg.merged_ranges # <<>>
        /\ \A k \in DOMAIN mg.merged_ranges :
               mg.merged_ranges[k][1] <= mg.merged_ranges[k][2]
        /\ \A k \in 1..(Len(mg.merged_ranges) - 1) :
               mg.merged_ranges[k + 1][1] > mg.merged_ranges[k][2] + 1
        /\ \A n \in 0..(MaxSeqNum + MaxMergeWindow + 1) : InSomeRange(n) <=> InSomeWindow(n)
        /\ (mg.matched = <<3, 10>> /\ mg.context_window = 2)
               => mg.merged_ranges = << <<1, 5>>, <<8, 12>> >>
        /\ (mg.matched = <<3, 5>> /\ mg.context_window = 2)
               => mg.merged_ranges = << <<1, 7>> >>

\* C10 witness: hits matched out of order whose windows overlap, and a third
\* whose window is adjacent to the merged one, end in one range.
C10_Witness ==
    /\ mg.op = "merged"
    /\ mg.matched = <<5, 3, 10>>
    /\ mg.context_window = 2
    /\ mg.merged_ranges = << <<1, 12>> >>

(***************************************************************************)
(* Properties of hybrid_search (checked under SpecHybrid).                 *)
(***************************************************************************)
\* a hybrid_search call has run and reached the fusion
Fused == hs # NoCall /\ hs.out.raised = ""

\* the stored point i is among the results of a path
InResults(results, i) == \E k \in DOMAIN results : results[k].point = i
ScoreIn(results, i) == results[CHOOSE k \in DOMAIN results : results[k].point = i].score

\* C6: fusion keys results by chunk identity. A stored chunk returned by the
\* vector path, the fuzzy path or both has exactly one fused entry, holding
\* its vector_score and its fuzzy_score (0 for a path that did not return it),
\* with score = vector_score * vector_weight + fuzzy_score * fuzzy_weight; no
\* stored chunk appears twice in the fused list.
C6_OneEntryPerChunk ==
    Fused =>
        \A i \in DOMAIN document_chunks :
            (InResults(hs.out.vector_results, i) \/ InResults(hs.out.fuzzy_results, i)) =>
                LET entries == {k \in DOMAIN hs.out.results_list : hs.out.results_list[k].point = i}
                    vs == IF InResults(hs.out.vector_results, i)
                          THEN ScoreIn(hs.out.vector_results, i) ELSE 0
                    fs == IF InResults(hs.out.fuzzy_results, i)
                          THEN ScoreIn(hs.out.fuzzy_results, i) ELSE 0
                IN  /\ Cardinality(entries) = 1
                    /\ \A k \in entries :
                           /\ hs.out.results_list[k].vector_score = vs
                           /\ hs.out.results_list[k].fuzzy_score = fs
                           /\ hs.out.results_list[k].score
                                  = vs * hs.out.weights.v + fs * hs.out.weights.f

\* C7: for every pair of caller-supplied weights, hybrid_search scores with
\* weights that sum to 1, each the supplied weight over the pair's sum, and
\* the ranked results are computed with those weights.
C7_WeightsSumToOne ==
    hs # NoCall =>
        /\ hs.out.raised = ""
        /\ hs.out.weights.v + hs.out.weights.f = hs.out.weights.den
        /\ hs.out.weights.v = hs.call.vector_weight
        /\ hs.out.weights.f = hs.call.fuzzy_weight
        /\ \A k \in DOMAIN hs.out.results_list :
               hs.out.results_list[k].score
                   = hs.out.results_list[k].vector_score * hs.out.weights.v
                     + hs.out.results_list[k].fuzzy_score * hs.out.weights.f

\* the entry of the fused list is among the returned ones
Returned(r) == \E k \in DOMAIN hs.out.top_results : hs.out.top_results[k].id = r.id

\* C8: the returned list has at most top_k entries, is in non-increasing
\* order of combined score, holds the top_k best fused candidates (no dropped
\* candidate scores above a returned one), and among equal scores keeps
\* insertion order, vector-path entries being inserted before fuzzy-path ones.
C8_RankedTopK ==
    hs # NoCall =>
        IF hs.out.raised # "" THEN hs.out.top_results = <<>>
        ELSE LET R == hs.out.results_list
                 T == hs.out.top_results
             IN  /\ Len(T) = IF Len(R) <= hs.call.top_k THEN Len(R) ELSE hs.call.top_k
                 /\ \A k \in DOMAIN T : \E j \in DOMAIN R : R[j] = T[k]
                 /\ \A j, k \in DOMAIN T : j < k =>
                        /\ T[j].score >= T[k].score
                        /\ T[j].score = T[k].score => T[j].id < T[k].id
                 /\ \A j \in DOMAIN R : ~Returned(R[j]) =>
                        \A k \in DOMAIN T :
                            /\ R[j].score <= T[k].score
                            /\ R[j].score = T[k].score => T[k].id < R[j].id
                 /\ \A j, k \in DOMAIN R :
                        (R[j].vector_score > 0 /\ R[k].vector_score = 0) => R[j].id < R[k].id

\* C8 witness: more candidates than top_k, and a vector-path entry returned
\* ahead of a fuzzy-path entry of the same combined score.
C8_Witness ==
    /\ Fused
    /\ Len(hs.out.results_list) > hs.call.top_k
    /\ \E j, k \in DOMAIN hs.out.top_results :
           /\ j < k
           /\ hs.out.top_results[j].score = hs.out.top_results[k].score
           /\ hs.out.top_results[j].vector_score > 0
           /\ hs.out.top_results[k].vector_score = 0

(***************************************************************************)
(* Properties of the answer pipeline (checked under SpecAnswer).           *)
(***************************************************************************)
\* the call has ended, by returning or by raising
CallEnded == aq.pc \in {"returned", "raised"}

\* C4: every turn is persisted: no path of answer_query_with_conversation_context
\* ends the call with the query stored and no answer stored for it.
C4_EveryTurnPersisted ==
    (CallEnded /\ aq.query_stored) => aq.answer_stored

C11_WindowExpansion ==
    IsContextCall =>
        LET coll == chat_memory
            S == SessionPoints(coll, mm_call.session_id)
            InWindow(n) ==
                \E k \in DOMAIN mm_call.hits :
                    /\ n >= Max(1, coll[mm_call.hits[k]].sequence_num - mm_call.context_window)
                    /\ n <= coll[mm_call.hits[k]].sequence_num + mm_call.context_window
        IN  /\ \A i \in S :
                   InWindow(coll[i].sequence_num) =>
                       \E k \in DOMAIN mm_result : mm_result[k].content = coll[i].content
            /\ \A k \in DOMAIN mm_result :
                   \E i \in S : /\ InWindow(coll[i].sequence_num)
                                /\ MessageOf(coll[i]) = mm_result[k]

(***************************************************************************)
(* Properties of the chunk deduplication (checked under SpecDedupe).       *)
(***************************************************************************)
\* the place of the first chunk with text t in the retrieved list
FirstPlace(chunks, t) ==
    CHOOSE k \in DOMAIN chunks :
        chunks[k].text = t /\ \A j \in 1..(k - 1) : chunks[j].text # t

\* C12: for any list of retrieved chunks, each distinct chunk text occurs
\* exactly once in the document context and exactly once among the document
\* sources, whatever the metadata, and the distinct texts appear in the order
\* of their first occurrence in the retrieved list.
C12_ChunkDeduplication ==
    fn.op = "unique_chunks" =>
        LET chunks == fn.document_chunks
            ctx    == fn.document_context
            src    == fn.all_sources
            texts  == {chunks[k].text : k \in DOMAIN chunks}
        IN  /\ \A t \in texts :
                   /\ Cardinality({k \in DOMAIN ctx : ctx[k] = t}) = 1
                   /\ Cardinality({k \in DOMAIN src :
                                      src[k].type = "document" /\ src[k].text = t}) = 1
            /\ \A k \in DOMAIN ctx : ctx[k] \in texts
            /\ \A k \in DOMAIN src : src[k].text \in texts
            /\ \A k, l \in DOMAIN ctx :
                   k < l => FirstPlace(chunks, ctx[k]) < FirstPlace(chunks, ctx[l])
            /\ \A k, l \in DOMAIN src :
                   k < l => FirstPlace(chunks, src[k].text) < FirstPlace(chunks, src[l].text)

\* C12 witness: a text retrieved twice with different metadata, with another
\* text between its two chunks, has been deduplicated.
C12_Witness ==
    /\ fn.op = "unique_chunks"
    /\ \E i, j, k \in DOMAIN fn.document_chunks :
           /\ i < j /\ j < k
           /\ fn.document_chunks[i].text = fn.document_chunks[k].text
           /\ fn.document_chunks[i].metadata # fn.document_chunks[k].metadata
           /\ fn.document_chunks[j].text # fn.document_chunks[i].text
    /\ Len(fn.document_context) < Len(fn.document_chunks)

(***************************************************************************)
(* Error handling of the answer pipeline (checked under SpecAnswer).       *)
(***************************************************************************)
\* C13: a vector-store failure at any store call made during
\* answer_query_with_conversation_context is never raised to the caller.
C13_StoreFailureNeverRaised ==
    ~(aq.pc = "raised" /\ aq.error = "store failure")

(***************************************************************************)
(* Properties of indexing (checked under SpecIndex).                       *)
(***************************************************************************)
\* the points of the batches 1..n, in order
RECURSIVE PointsOfBatches(_, _)
PointsOfBatches(batches, n) ==
    IF n = 0 THEN <<>> ELSE PointsOfBatches(batches, n - 1) \o batches[n]

\* C14: indexing is batched and not atomic. Batches hold at most batch_size
\* points and are upserted one after another; if the upsert of batch k fails,
\* the points of batches 1..k-1 stay in the collection, no later batch is
\* attempted and the call returns {status: "error", message}; on success
\* total_chunks is the number of points added to the collection.
C14_BatchedNotAtomic ==
    ix.pc \in {"upsert", "returned"} =>
        /\ \A k \in DOMAIN ix.batches :
               Len(ix.batches[k]) >= 1 /\ Len(ix.batches[k]) <= ix.batch_size
        /\ ix.pc = "upsert" =>
               /\ ix.upserts = ix.next - 1
               /\ document_chunks = ix.before \o PointsOfBatches(ix.batches, ix.next - 1)
        /\ (ix.pc = "returned" /\ ix.failed_at > 0) =>
               /\ document_chunks
                      = ix.before \o PointsOfBatches(ix.batches, ix.failed_at - 1)
               /\ ix.upserts = ix.failed_at
               /\ ix.result.status = "error"
               /\ "message" \in DOMAIN ix.result
        /\ (ix.pc = "returned" /\ ix.result.status = "success") =>
               /\ ix.result.total_chunks = Len(document_chunks) - Len(ix.before)
               /\ document_chunks
                      = ix.before \o PointsOfBatches(ix.batches, Len(ix.batches))

\* C14 witness: the second of at least three batches failed, after a first
\* batch of two points.
C14_Witness ==
    /\ ix.pc = "returned"
    /\ ix.failed_at = 2
    /\ Len(ix.batches) >= 3
    /\ Len(document_chunks) = Len(ix.before) + 2
    /\ ix.result.status = "error"

\* both contexts of the call are non-empty
BothContexts ==
    ~JoinedEmpty(aq.document_context) /\ ~FormattedEmpty(aq.conversation_context)

\* C15: when both contexts are non-empty, the weights of the two section
\* labels are document_weight and conversation_weight over their sum, which
\* sum to 1, for every pair of caller-supplied weights, and the call goes on
\* to an answer.
C15_SectionWeightsNormalized ==
    /\ (aq.pc \in {"store_answer", "returned"} /\ BothContexts) =>
           /\ aq.weights.den > 0
           /\ aq.weights.document + aq.weights.conversation = aq.weights.den
           /\ aq.weights.document * (aq.document_weight + aq.conversation_weight)
                  = aq.document_weight * aq.weights.den
           /\ aq.weights.conversation * (aq.document_weight + aq.conversation_weight)
                  = aq.conversation_weight * aq.weights.den
    /\ ~(aq.pc = "raised" /\ aq.error = "ZeroDivisionError")

(***************************************************************************)
(* Properties of the rolling window (checked under SpecRolling).           *)
(***************************************************************************)
\* the chunks made from document k, in order
ChunksOf(k) ==
    SelectSeq(fn.rolling_chunks, LAMBDA c : c.metadata.source = k)

\* the chunks of document k are the full windows at the offsets 0, step, ...
\* with their positions in the metadata
FullWindows(k) ==
    LET text   == fn.documents[k].page_content
        chunks == ChunksOf(k)
    IN  /\ Len(chunks) = ((Len(text) - fn.window_size) \div fn.step_size) + 1
        /\ \A j \in DOMAIN chunks :
               LET i == (j - 1) * fn.step_size
               IN  /\ Len(chunks[j].page_content) = fn.window_size
                   /\ chunks[j].page_content
                          = [p \in 1..fn.window_size |-> text[i + p]]
                   /\ "chunk_start" \in DOMAIN chunks[j].metadata
                   /\ "chunk_end" \in DOMAIN chunks[j].metadata
                   /\ chunks[j].metadata.chunk_start = i
                   /\ chunks[j].metadata.chunk_end = i + fn.window_size

IsValidateCall == au.last.op = "validate_session"

\* after a call: a validation succeeds exactly for an issued token that was
\* not logged out, at most SessionDuration after its creation; the tokens
\* logged out or seen expired are deleted; a stored expiry is the creation
\* time plus SessionDuration
SessionState ==
    /\ IsValidateCall =>
           (au.last.result[1] = TRUE
               <=> /\ au.last.session_id \in DOMAIN au.issued
                   /\ au.last.session_id \notin au.logged_out
                   /\ au.last.now <= au.issued[au.last.session_id] + SessionDuration)
    /\ \A t \in au.logged_out \cup au.seen_expired : t \notin DOMAIN au.sessions
    /\ \A t \in DOMAIN au.sessions :
           /\ t \in DOMAIN au.issued
           /\ au.sessions[t].expires = au.issued[t] + SessionDuration

\* in a step: a token appears only as the result of a successful
\* authenticate_user, validate_session leaves every remaining expiry as it
\* was, and a deleted token never comes back
SessionStep ==
    /\ \A t \in DOMAIN au'.sessions \ DOMAIN au.sessions :
           /\ au'.last.op = "authenticate_user"
           /\ au'.last.result = <<TRUE, t>>
           /\ t \notin DOMAIN au.issued
    /\ \A t \in DOMAIN au'.sessions \cap DOMAIN au.sessions :
           au'.sessions[t].expires = au.sessions[t].expires
    /\ au'.last.op = "validate_session" =>
           \A t \in DOMAIN au.sessions :
               t \in DOMAIN au'.sessions \/ Expired(au.clock, au.sessions[t].expires)

\* C17: a session token is created only by a successful authenticate_user;
\* validate_session succeeds exactly when the token was issued, has not been
\* logged out and the time is at most 24h after its creation; it never
\* extends the expiry; after logout_user or a validation past expiry the
\* token is deleted and every later validation of it fails.
C17_SessionLifecycle ==
    [](au.last.op # "none" => SessionState) /\ [][SessionStep]_vars

\* C17 witness: a token validated successfully at the last instant of its
\* 24 hours while another token had been logged out before.
C17_Witness ==
    /\ IsValidateCall
    /\ au.last.result[1] = TRUE
    /\ au.last.now = au.issued[au.last.session_id] + SessionDuration
    /\ au.logged_out # {}

(***************************************************************************)
(* Further properties of the memory store (checked under Spec).            *)
(***************************************************************************)
\* the step is a call of one of the retrieval operations
RetrievalStep ==
    /\ mm_call = NoCall
    /\ mm_call'.op \in {"retrieve_messages_by_sequence",
                        "retrieve_context_relevant_messages",
                        "get_all_session_messages"}

\* C18: messages accumulate monotonically. With store_message called without
\* a message id, no stored message is lost, none changes its session,
\* content, role or sequence_num, and the retrieval operations leave the
\* store unchanged.
C18_MessagesAccumulate ==
    [][/\ Len(chat_memory') >= Len(chat_memory)
       /\ \A i \in DOMAIN chat_memory : chat_memory'[i] = chat_memory[i]
       /\ RetrievalStep => chat_memory' = chat_memory]_vars

\* C18 witness: a retrieval has run on a session that holds three messages,
\* beside a message of the other session.
C18_Witness ==
    /\ mm_call.op = "get_all_session_messages"
    /\ mm_call.store_ok
    /\ Len(SessionLog(chat_memory, mm_call.session_id)) = 3
    /\ Len(chat_memory) = 4

\* C19: if the store fails during get_all_session_messages the call returns
\* the empty list and raises nothing; without a failure it returns all
\* messages of the session.
C19_AllSessionMessages ==
    mm_call.op = "get_all_session_messages" =>
        /\ ~mm_call.raised
        /\ ~mm_call.store_ok => mm_result = <<>>
        /\ mm_call.store_ok =>
               LET S == SessionPoints(chat_memory, mm_call.session_id)
               IN  /\ Len(mm_result) = Cardinality(S)
                   /\ \A i \in S : \E k \in DOMAIN mm_result :
                          mm_result[k] = MessageOf(chat_memory[i])

(***************************************************************************)
(* Properties of retrieval without sequence metadata (checked under        *)
(* SpecStored).                                                            *)
(***************************************************************************)
\* the hits of the last retrieve_messages_by_sequence, in page order
PageHits == [k \in DOMAIN mm_call.page |-> chat_memory[mm_call.page[k]]]

\* the messages of these hits, one per hit, in the order of the page
MessagesInPageOrder == [k \in DOMAIN PageHits |-> MessageOf(PageHits[k])]

\* C20 as stated: if sequence metadata is absent on any hit of
\* retrieve_messages_by_sequence, the messages are returned in the order the
\* store returned them (no reordering).
C20_StoreOrderAsStated ==
    (IsSequenceCall /\ \E k \in DOMAIN PageHits : ~HasSequenceNum(PageHits[k]))
        => mm_result = MessagesInPageOrder

\* C20: if sequence metadata is absent on every hit of
\* retrieve_messages_by_sequence, the messages are returned in the order the
\* store returned them (no reordering), and the call returns.
C20_StoreOrderWithoutSequence ==
    (IsSequenceCall /\ \A k \in DOMAIN PageHits : ~HasSequenceNum(PageHits[k]))
        => mm_result = MessagesInPageOrder

\* a call whose page holds two different hits, none with a sequence number,
\* in another order than they were written
C20_Witness ==
    /\ IsSequenceCall
    /\ mm_call.page = <<2, 1>>
    /\ PageHits[1] # PageHits[2]
    /\ \A k \in DOMAIN PageHits : ~HasSequenceNum(PageHits[k])
    /\ mm_result = MessagesInPageOrder

(***************************************************************************)
(* Further properties of the memory store (checked under Spec).            *)
(***************************************************************************)
\* C21: the result of retrieve_context_relevant_messages holds no two
\* messages with the same content, and its messages are those of points of
\* the session taken in ascending sequence_num order.
C21_UniqueInSequenceOrder ==
    IsContextCall =>
        /\ \A j, k \in DOMAIN mm_result :
               mm_result[j].content = mm_result[k].content => j = k
        /\ \E ord \in Arrangements(SessionPoints(chat_memory, mm_call.session_id),
                                   Len(mm_result)) :
               /\ \A k \in DOMAIN mm_result :
                      mm_result[k] = MessageOf(chat_memory[ord[k]])
               /\ \A k \in 1..(Len(mm_result) - 1) :
                      chat_memory[ord[k]].sequence_num
                          <= chat_memory[ord[k + 1]].sequence_num

(***************************************************************************)
(* Properties of fuzzy_search (checked under SpecFuzzy).                   *)
(***************************************************************************)
\* the token-set ratio of the last call's query with the stored chunk i
RatioOf(i) == TokenSetRatio(fn.query_text, document_chunks[i].text)

\* the stored chunk i is among the results of the last call
InFuzzyResults(i) == \E k \in DOMAIN fn.out : fn.out[k].point = i

\* C22: fuzzy_search returns only scanned chunks whose token-set ratio with
\* the query is at least min_score, each once and with that ratio as its
\* score (in hundredths, 70..100), sorted by score descending and cut to at
\* most top_k entries; a scanned chunk it omits scores below min_score or not
\* above the lowest returned score; a store failure gives the empty list.
C22_FuzzySearch ==
    fn.op = "fuzzy_search" =>
        /\ ~fn.store_ok => fn.out = <<>>
        /\ Len(fn.out) <= fn.top_k
        /\ \A k \in DOMAIN fn.out :
               /\ \E j \in DOMAIN fn.page : fn.page[j] = fn.out[k].point
               /\ fn.out[k].text = document_chunks[fn.out[k].point].text
               /\ fn.out[k].score = RatioOf(fn.out[k].point)
               /\ fn.out[k].score >= fn.min_score
               /\ fn.out[k].score \in FuzzyMinScore..100
        /\ \A j, k \in DOMAIN fn.out : fn.out[j].point = fn.out[k].point => j = k
        /\ \A k \in 1..(Len(fn.out) - 1) : fn.out[k].score >= fn.out[k + 1].score
        /\ \A j \in DOMAIN fn.page :
               ~InFuzzyResults(fn.page[j]) =>
                   \/ RatioOf(fn.page[j]) < fn.min_score
                   \/ /\ fn.out # <<>>
                      /\ RatioOf(fn.page[j]) <= fn.out[Len(fn.out)].score

\* a call that cut its matches: a scanned chunk reaches min_score and is left
\* out, behind a full list whose entries score higher than it
C22_Witness ==
    /\ fn.op = "fuzzy_search"
    /\ fn.store_ok
    /\ Len(fn.out) = fn.top_k
    /\ \E j \in DOMAIN fn.page :
           /\ ~InFuzzyResults(fn.page[j])
           /\ RatioOf(fn.page[j]) >= fn.min_score
           /\ RatioOf(fn.page[j]) < fn.out[Len(fn.out)].score

(***************************************************************************)
(* Properties of ensuring a collection (checked under SpecEnsure).         *)
(***************************************************************************)
\* C23: ensuring a collection is idempotent, also with two interleaved
\* callers: no create is issued for a collection that exists, a call that
\* returned leaves its collection in the store, and no step discards points
\* of a collection.
C23_EnsureIdempotent ==
    /\ [](/\ qc.last_create # NoCreate => ~qc.last_create.existed
          /\ \A c \in Callers :
                 qc.callers[c].pc = "returned" => qc.callers[c].name \in qc.exists)
    /\ [][/\ qc.exists \subseteq qc'.exists
          /\ \A n \in qc.exists : qc'.points[n] >= qc.points[n]]_vars

(***************************************************************************)
(* Further properties of the answer pipeline (checked under SpecAnswer).   *)
(***************************************************************************)
\* the points of the call's session that the memory held when the call began
PriorPoints ==
    {i \in 1..aq.prior : chat_memory[i].session_id = aq.session_id}

\* C25: the conversation context of a query holds only messages stored before
\* the query's turn, so a call with memory enabled on a session without prior
\* messages and without document context returns the fixed answer with
\* conversation_context_used = false.
C25_OnlyPriorMessages ==
    aq.pc \in {"combine", "store_answer", "returned"} =>
        /\ \A k \in DOMAIN aq.relevant_messages :
               \E i \in PriorPoints : MessageOf(chat_memory[i]) = aq.relevant_messages[k]
        /\ (/\ aq.pc = "returned"
            /\ aq.use_conversation_memory
            /\ PriorPoints = {}
            /\ JoinedEmpty(aq.document_context))
               => /\ aq.returned.answer = NoInfoAnswer
                  /\ ~aq.returned.conversation_context_used

(***************************************************************************)
(* Properties of a chat turn of the user interface (checked under          *)
(* SpecTurn).                                                              *)
(***************************************************************************)
\* the messages of the UI's session stored during the turn, by role
TurnMessages(role) ==
    {i \in TurnPoints : i > ui.stored /\ chat_memory[i].role = role}

\* C26: a chat turn that ran to its end added exactly one user message and
\* one assistant message to the session, so the number of stored messages
\* advanced by exactly 2.
C26_TwoMessagesPerTurn ==
    (ui.pc = "done" /\ ui.error = "") =>
        /\ Cardinality(TurnPoints) = ui.before + 2
        /\ Cardinality(TurnMessages("user")) = 1
        /\ Cardinality(TurnMessages("assistant")) = 1

(***************************************************************************)
(* Properties of the authenticated user interface (checked under           *)
(* SpecMain).                                                              *)
(***************************************************************************)
\* C24: what user U uploads or scrapes is indexed into U's own collection,
\* and a collection holds only what its user uploaded; a chat turn of U runs
\* to its end with the query stored under U's own session.
C24_PerUserNamespaces ==
    /\ ui.event.op = "upload" =>
           /\ ui.event.collection = UserDocumentCollection(ui.event.username)
           /\ ui.event.indexed =>
                  ui.event.document \in ui.indexed[UserDocumentCollection(ui.event.username)]
    /\ \A u \in Usernames :
           ui.indexed[UserDocumentCollection(u)] \subseteq au.users[u].documents
    /\ ui.event.op = "chat" =>
           /\ ui.error = ""
           /\ \E i \in DOMAIN chat_memory :
                  /\ chat_memory[i].session_id = UserSessionId(ui.event.username)
                  /\ chat_memory[i].content = ui.event.query

\* C27: a script run shows the main application only if the session token
\* was valid at that run.
C27_MainOnlyWithValidSession ==
    (ui.pc = "idle" /\ ui.page = "main") => ui.valid_at_run

(***************************************************************************)
(* Properties of the user database under two callers (checked under        *)
(* SpecAuthRace).                                                          *)
(***************************************************************************)
\* C28: no update of the user database is lost: every session a login
\* issued is in the database unless a logout or an expiry removed it, a
\* session a logout or an expiry removed is not in the database, and every
\* user a sign-up created is in the database.
C28_NoLostUpdates ==
    /\ \A t \in au.issued \ (au.logged_out \cup au.expired) : t \in DOMAIN au.db.sessions
    /\ \A t \in au.logged_out \cup au.expired : t \notin DOMAIN au.db.sessions
    /\ au.created \subseteq au.db.users

(***************************************************************************)
(* The document sources of an answer (checked under SpecAnswer).           *)
(***************************************************************************)
\* the document entries of the sources of the call under way
DocumentEntries == SelectSeq(aq.all_sources, LAMBDA s : s.type = "document")

\* C29: when several chunks retrieved for a query have identical text, the
\* single document source entry kept for that text carries the score, the
\* metadata and the strategy of its first (highest-ranked) occurrence in the
\* retrieved list, so the document sources are listed in non-increasing
\* score order.
C29_SourceOfFirstOccurrence ==
    aq.pc \in {"conversation", "combine", "store_answer", "returned"} =>
        LET chunks == aq.document_chunks
            src    == DocumentEntries
        IN  /\ \A k \in DOMAIN src :
                   \E j \in DOMAIN chunks :
                       /\ chunks[j].text = src[k].text
                       /\ \A i \in 1..(j - 1) : chunks[i].text # src[k].text
                       /\ src[k].score = chunks[j].score
                       /\ src[k].metadata = chunks[j].metadata
                       /\ src[k].strategy = chunks[j].strategy
            /\ \A k \in 1..(Len(src) - 1) : src[k].score >= src[k + 1].score

\* C30: rolling-window chunks cover the whole document: for every document
\* and every window_size and step_size with step_size <= window_size, each
\* character position of the document text lies in at least one chunk,
\* including the positions after the last full stride.
C30_ChunksCoverDocument ==
    (fn.op = "rolling_chunks" /\ fn.step_size <= fn.window_size) =>
        \A k \in DOMAIN fn.documents :
            \A p \in DOMAIN fn.documents[k].page_content :
                \E j \in DOMAIN ChunksOf(k) :
                    \E i \in DOMAIN ChunksOf(k)[j].page_content :
                        ChunksOf(k)[j].page_content[i] = fn.documents[k].page_content[p]

=============================================================================
